---- MODULE Spec2Model ----
(***************************************************************************)
(* A model of the VMOnSTM32 interpreter: an ARMv7 virtual CPU (registers,  *)
(* CPSR), its two-tier memory (local array, remote region served over a    *)
(* serial link), the arithmetic primitives, the operand I/O and the        *)
(* executor, as written in src/src/*.rs.                                   *)
(*                                                                         *)
(* A u32 is the pair <<hi, lo>> of its 16-bit halves (TLC's integers stop  *)
(* at 2^31 - 1), so every 32-bit operation below is exact.                 *)
(*                                                                         *)
(* Record constructors list their fields in the order in which the names   *)
(* first occur in this module, the order TLC sorts a record into; a record *)
(* then never changes once built, whichever worker looks at it first.      *)
(***************************************************************************)
EXTENDS Integers, Sequences, FiniteSets, TLC

VARIABLES
    regs,             \* cpu.regs: [0..15 -> u32]
    cpsr,             \* cpu.cpsr, one field per bitfield of CPSRegister
    data,             \* memory.data, the local array (bytes that are not 0)
    tx,               \* bytes written to the serial port by the last operation
    status,           \* where the run loop is: "fetch", "execute", "panicked"
    inst,             \* the instruction record the decoder returned
    fetch_address,    \* Machine.mark: address the instruction in inst was fetched from
    pc_write,         \* how the last operation changed R15
    last,             \* what the last operation was (observation)
    steps,            \* number of instructions decoded so far
    overflow_checks,  \* the build profile: TRUE panics on integer overflow
    call,             \* harness: the function called and its arguments
    ret,              \* harness: what the call returned
    written           \* harness: the last byte written to each address

vars == <<regs, cpsr, data, tx, status, inst, fetch_address, pc_write, last,
          steps, overflow_checks, call, ret, written>>

-----------------------------------------------------------------------------
(* 32-bit words *)

W16 == 2 ^ 16
W15 == 2 ^ 15
W8 == 2 ^ 8

Hi(x) == x[1]
Lo(x) == x[2]
U32(n) == <<n \div W16, n % W16>>
Zero == <<0, 0>>
One == <<0, 1>>
Ones == <<W16 - 1, W16 - 1>>
IntMax == <<W15 - 1, W16 - 1>>
IntMin == <<W15, 0>>

Pow2(n) == 2 ^ n

\* bit i (0..31) of x, as 0 or 1
Bit(x, i) == IF i < 16 THEN (Lo(x) \div Pow2(i)) % 2
                       ELSE (Hi(x) \div Pow2(i - 16)) % 2

\* the 16-bit high half of x read as a signed number (x as i32 = SHi * 2^16 + Lo)
SHi(x) == IF Hi(x) >= W15 THEN Hi(x) - W16 ELSE Hi(x)

\* unsigned comparison
Lt32(x, y) == Hi(x) < Hi(y) \/ (Hi(x) = Hi(y) /\ Lo(x) < Lo(y))
Ge32(x, y) == ~Lt32(x, y)

RECURSIVE And16(_, _)
And16(a, b) == IF a = 0 \/ b = 0 THEN 0
               ELSE (a % 2) * (b % 2) + 2 * And16(a \div 2, b \div 2)
Or16(a, b) == a + b - And16(a, b)
Xor16(a, b) == a + b - 2 * And16(a, b)

And32(x, y) == <<And16(Hi(x), Hi(y)), And16(Lo(x), Lo(y))>>
Or32(x, y) == <<Or16(Hi(x), Hi(y)), Or16(Lo(x), Lo(y))>>
Xor32(x, y) == <<Xor16(Hi(x), Hi(y)), Xor16(Lo(x), Lo(y))>>
Not32(x) == <<W16 - 1 - Hi(x), W16 - 1 - Lo(x)>>

\* u32 `+`: the wrapped sum and whether the addition overflows
AddU32(x, y) ==
    LET lo == Lo(x) + Lo(y)
        hi == Hi(x) + Hi(y) + lo \div W16
    IN  [val |-> <<hi % W16, lo % W16>>, ovf |-> hi >= W16]

\* u32 `-`: the wrapped difference and whether the subtraction overflows
SubU32(x, y) ==
    LET lo == Lo(x) - Lo(y)
        hi == Hi(x) - Hi(y) + lo \div W16
    IN  [val |-> <<hi % W16, lo % W16>>, ovf |-> hi < 0]

\* i32 `+` on bit patterns: the wrapped sum and whether it overflows
AddI32(x, y) ==
    LET lo == Lo(x) + Lo(y)
        hi == SHi(x) + SHi(y) + lo \div W16
    IN  [val |-> <<hi % W16, lo % W16>>, ovf |-> hi < -W15 \/ hi >= W15]

Bool32(b) == IF b THEN One ELSE Zero

-----------------------------------------------------------------------------
(* arithmetic.rs *)

\* add_with_carry: the sums are Rust's `+` on u32 and i32, which panic on
\* overflow when the build checks overflow and wrap otherwise
add_with_carry(x, y, carry_in) ==
    LET u1 == AddU32(x, y)
        u2 == AddU32(u1.val, Bool32(carry_in))
        unsigned_sum == u2.val
        s1 == AddI32(x, y)
        s2 == AddI32(s1.val, Bool32(carry_in))
        signed_num == s2.val
        result == <<Hi(unsigned_sum) % W15, Lo(unsigned_sum)>>
    IN  [result |-> result,
         panic |-> overflow_checks /\ (u1.ovf \/ u2.ovf \/ s1.ovf \/ s2.ovf),
         carry_out |-> result # unsigned_sum,
         overflow |-> result # signed_num]

-----------------------------------------------------------------------------
(* protocol.rs, serial.rs: the command channel to the host *)

ESCAPE_CHAR == 92
FRAME_END == 255
READY == 170
READY_ACK == 85

\* u32::to_le_bytes
to_le_bytes(x) == <<Lo(x) % W8, Lo(x) \div W8, Hi(x) % W8, Hi(x) \div W8>>
\* u32::from_le_bytes
from_le_bytes(b) == <<b[4] * W8 + b[3], b[2] * W8 + b[1]>>

ReadMemory(address) == [address |-> address, cmd |-> "ReadMemory"]
WriteMemory(address, value) ==
    [address |-> address, cmd |-> "WriteMemory", value |-> value]

head(c) == IF c.cmd = "ReadMemory" THEN 1 ELSE 2

command_data(c) ==
    IF c.cmd = "ReadMemory" THEN to_le_bytes(c.address)
    ELSE to_le_bytes(c.address) \o <<c.value>>

\* a payload sent as it is, with no escape
escape_payload_plain(bytes) == bytes

\* the loop of Command::send over the payload: an escape before 0x5C and 0xFF
RECURSIVE escape_payload(_)
escape_payload(bytes) ==
    IF bytes = <<>> THEN <<>>
    ELSE (IF bytes[1] = ESCAPE_CHAR \/ bytes[1] = FRAME_END
          THEN <<ESCAPE_CHAR, bytes[1]>> ELSE <<bytes[1]>>)
         \o escape_payload(Tail(bytes))

\* what the sender does with the serial port, in order: serial.write(b),
\* serial.flush(), serial.read() returning b
Wr(b) == <<"write", b>>
Flush == <<"flush", 0>>
Rd(b) == <<"read", b>>
RECURSIVE Writes(_)
Writes(bytes) == IF bytes = <<>> THEN <<>> ELSE <<Wr(bytes[1])>> \o Writes(Tail(bytes))

\* an ensure_ready that goes on after the first answer, whatever it is
ensure_ready_once(rx) ==
    IF rx = <<>>
        THEN [tx |-> <<READY>>, rx |-> <<>>, blocked |-> TRUE,
              log |-> <<Wr(READY), Flush>>]
    ELSE [tx |-> <<READY>>, rx |-> Tail(rx), blocked |-> FALSE,
          log |-> <<Wr(READY), Flush, Rd(rx[1])>>]

\* ensure_ready against the bytes rx the host will answer with: the bytes
\* written, the bytes of rx left, whether the loop is still waiting when
\* rx runs out (serial.read busy-waits for the next byte), and the log of the
\* calls on the serial port
RECURSIVE ensure_ready(_)
ensure_ready(rx) ==
    IF rx = <<>>
        THEN [tx |-> <<READY>>, rx |-> <<>>, blocked |-> TRUE,
              log |-> <<Wr(READY), Flush>>]
    ELSE IF rx[1] = READY_ACK
         THEN [tx |-> <<READY>>, rx |-> Tail(rx), blocked |-> FALSE,
               log |-> <<Wr(READY), Flush, Rd(rx[1])>>]
         ELSE LET r == ensure_ready(Tail(rx))
              IN  [tx |-> <<READY>> \o r.tx, rx |-> r.rx, blocked |-> r.blocked,
                   log |-> <<Wr(READY), Flush, Rd(rx[1])>> \o r.log]

\* Command::send: handshake, header, escaped payload, terminator, flush
send(c, rx) ==
    LET r == ensure_ready(rx)
        frame == <<head(c)>> \o escape_payload(command_data(c)) \o <<FRAME_END>>
    IN  IF r.blocked THEN r
        ELSE [tx |-> r.tx \o frame, rx |-> r.rx, blocked |-> FALSE,
              log |-> r.log \o Writes(frame) \o <<Flush>>]

\* receive_data: the loop state is (data, escape)
RECURSIVE receive_loop(_, _, _)
receive_loop(rx, acc, escape) ==
    IF rx = <<>> THEN [data |-> acc, rx |-> <<>>, blocked |-> TRUE]
    ELSE LET byte == rx[1]
         IN  IF ~escape /\ byte = ESCAPE_CHAR
                 THEN receive_loop(Tail(rx), acc, TRUE)
             ELSE IF ~escape /\ byte = FRAME_END
                 THEN [data |-> acc, rx |-> Tail(rx), blocked |-> FALSE]
             ELSE receive_loop(Tail(rx), Append(acc, byte), FALSE)

receive_data(rx) == receive_loop(rx, <<>>, FALSE)

-----------------------------------------------------------------------------
(* the host at the other end of the serial link *)

MaxNak == 1

HostKinds == {"byte", "empty", "two"}
HostSeeds == {90, 253}

\* the byte the host holds at an offset of the remote region
HostByte(h, offset) == (h.seed + Lo(offset)) % W8

\* what the host answers to one READ_MEMORY of offset: h.nak bytes that are
\* not the acknowledgment, the acknowledgment, and a response frame
HostAnswer(h, offset) ==
    [i \in 1..h.nak |-> 0] \o <<READY_ACK>> \o
    (CASE h.kind = "byte" -> escape_payload(<<HostByte(h, offset)>>) \o <<FRAME_END>>
       [] h.kind = "empty" -> <<FRAME_END>>
       [] h.kind = "two" -> escape_payload(<<HostByte(h, offset), 7>>) \o <<FRAME_END>>)

Hosts == [seed : HostSeeds, nak : 0..MaxNak, kind : HostKinds]
\* the host of an operation that never reaches the link
QuietHost == [seed |-> 90, nak |-> 0, kind |-> "byte"]

-----------------------------------------------------------------------------
(* memory.rs *)

INTERNAL_SIZE == 1024 * 100
EXTERNAL_SIZE == 1024 * 1024
size == INTERNAL_SIZE + EXTERNAL_SIZE

ToNat(x) == Hi(x) * W16 + Lo(x)        \* for x < 2^31 only

\* memory.data[a]; Memory::default is all zero, and data keeps the bytes that
\* are not zero
Byte(d, a) == IF a \in DOMAIN d THEN d[a] ELSE 0
Store(d, a, b) ==
    LET dom == IF b = 0 THEN DOMAIN d \ {a} ELSE DOMAIN d \cup {a}
    IN  [i \in dom |-> IF i = a THEN b ELSE d[i]]

\* a read_memory without the remote tier: every address below size is local
read_memory_unrouted(d, address, h) ==
    IF Ge32(address, U32(size))
        THEN [tx |-> <<>>, val |-> 0, kind |-> "BusError"]
    ELSE [tx |-> <<>>, val |-> Byte(d, ToNat(address)), kind |-> "Ok"]

\* read_memory(address) with host h at the other end of the link
read_memory(d, address, h) ==
    IF Ge32(address, U32(size))
        THEN [tx |-> <<>>, val |-> 0, kind |-> "BusError"]
    ELSE IF ToNat(address) < INTERNAL_SIZE
        THEN [tx |-> <<>>, val |-> Byte(d, ToNat(address)), kind |-> "Ok"]
    ELSE LET offset == U32(ToNat(address) - INTERNAL_SIZE)
             received(s, r) ==
                IF s.blocked \/ r.blocked
                    THEN [tx |-> s.tx, val |-> 0, kind |-> "Blocked"]
                ELSE IF r.data = <<>>
                    THEN [tx |-> s.tx, val |-> 0, kind |-> "Panic"]
                ELSE [tx |-> s.tx, val |-> r.data[1], kind |-> "Ok"]
             sent(s) == received(s, receive_data(s.rx))
         IN  sent(send(ReadMemory(offset), HostAnswer(h, offset)))

\* a write_memory that stores the byte one address too high
write_memory_neighbour(d, address, bit) ==
    IF Ge32(address, U32(size))
        THEN [data |-> d, tx |-> <<>>, kind |-> "BusError"]
    ELSE IF ToNat(address) < INTERNAL_SIZE
        THEN [data |-> Store(d, ToNat(address) + 1, bit), tx |-> <<>>, kind |-> "Ok"]
    ELSE [data |-> d, tx |-> <<>>, kind |-> "Panic"]

\* write_memory(address, bit): the result and the local array after it
write_memory(d, address, bit) ==
    IF Ge32(address, U32(size))
        THEN [data |-> d, tx |-> <<>>, kind |-> "BusError"]
    ELSE IF ToNat(address) < INTERNAL_SIZE
        THEN [data |-> Store(d, ToNat(address), bit), tx |-> <<>>, kind |-> "Ok"]
    ELSE [data |-> d, tx |-> <<>>, kind |-> "Panic"]

\* address + i as u32: an overflow of the sum is a panic where overflows are
\* checked, and wraps otherwise
Offset(address, i) ==
    LET sum == AddU32(address, U32(i))
    IN  [val |-> sum.val, panic |-> overflow_checks /\ sum.ovf]

\* read_memory_n(address, buf) with n = buf.len(): the bytes read so far are
\* acc; the first read that fails ends the loop
RECURSIVE read_memory_n(_, _, _, _, _)
read_memory_n(d, address, n, h, acc) ==
    IF Len(acc.bytes) = n THEN acc
    ELSE LET a == Offset(address, Len(acc.bytes))
             byte_read(r) ==
                IF r.kind # "Ok" THEN [acc EXCEPT !.kind = r.kind, !.tx = @ \o r.tx]
                ELSE read_memory_n(d, address, n, h,
                        [acc EXCEPT !.bytes = Append(@, r.val), !.tx = @ \o r.tx])
         IN  IF a.panic THEN [acc EXCEPT !.kind = "Panic"]
             ELSE byte_read(read_memory(d, a.val, h))

\* read_memory_word(address)
read_memory_word(d, address, h) ==
    LET word_read(r) ==
            [tx |-> r.tx, val |-> IF r.kind = "Ok" THEN from_le_bytes(r.bytes) ELSE Zero,
             kind |-> r.kind]
    IN  word_read(read_memory_n(d, address, 4, h,
                                [tx |-> <<>>, bytes |-> <<>>, kind |-> "Ok"]))

\* write_memory_n(address, buf): the bytes before the first failing write stay
\* written
RECURSIVE write_memory_n(_, _, _, _)
write_memory_n(d, address, buf, i) ==
    IF i = Len(buf) THEN [data |-> d, tx |-> <<>>, kind |-> "Ok"]
    ELSE LET a == Offset(address, i)
             byte_written(r) ==
                IF r.kind # "Ok" THEN r
                ELSE write_memory_n(r.data, address, buf, i + 1)
         IN  IF a.panic THEN [data |-> d, tx |-> <<>>, kind |-> "Panic"]
             ELSE byte_written(write_memory(d, a.val, buf[i + 1]))

\* write_memory_word(address, word)
write_memory_word(d, address, word) == write_memory_n(d, address, to_le_bytes(word), 0)

-----------------------------------------------------------------------------
(* cpu.rs, machine.rs: the state after Machine::default() *)

SP_INDEX == 13
LR_INDEX == 14
PC_INDEX == 15

\* CPSRegister::default: supervisor mode, A/I/F masked, ARM, little-endian
CPSRegister_default ==
    [n |-> FALSE, i |-> TRUE, a |-> TRUE, c |-> FALSE, z |-> FALSE,
     v |-> FALSE, q |-> FALSE, it_low |-> 0, j |-> FALSE, ge |-> 0,
     it_high |-> 0, e |-> FALSE, f |-> TRUE, t |-> FALSE, m |-> 19]

-----------------------------------------------------------------------------
(* more 32-bit operations *)

\* x << n for 0 <= n <= 31 (the bits shifted out are lost)
RECURSIVE Shl32(_, _)
Shl32(x, n) ==
    IF n >= 16 THEN Shl32(<<Lo(x), 0>>, n - 16)
    ELSE LET lo == Lo(x) * Pow2(n)
         IN  <<(Hi(x) * Pow2(n) + lo \div W16) % W16, lo % W16>>

\* u32::leading_zeros
RECURSIVE Width16(_)
Width16(a) == IF a = 0 THEN 0 ELSE 1 + Width16(a \div 2)
leading_zeros(x) == IF Hi(x) # 0 THEN 16 - Width16(Hi(x)) ELSE 32 - Width16(Lo(x))

\* Rust's `<<` and `>>` on a 32-bit integer: a shift of 32 or more panics when
\* the build checks overflow, and shifts by the amount mod 32 otherwise
ShiftOverflow(shift) == overflow_checks /\ shift >= 32

\* value >> n for n <= 31
Shr32(x, n) ==
    IF n >= 16 THEN <<0, Hi(x) \div Pow2(n - 16)>>
    ELSE <<Hi(x) \div Pow2(n), Lo(x) \div Pow2(n) + (Hi(x) % Pow2(n)) * Pow2(16 - n)>>

\* ((value as i32) >> n) as u32 for n <= 31: the sign bit fills from the left
Sar32(x, n) ==
    IF Bit(x, 31) = 1 THEN Or32(Shr32(x, n), Not32(Shr32(Ones, n))) ELSE Shr32(x, n)

\* arithmetic.rs, Machine::logic_left_c:
\* (value << shift, value << (shift - 1) >> 31 & 1 == 1), and (value, false)
\* for a shift of 0
logic_left_c(value, shift) ==
    IF shift = 0 THEN [result |-> value, panic |-> FALSE, carry |-> FALSE]
    ELSE [result |-> Shl32(value, shift % 32),
          panic |-> ShiftOverflow(shift),
          carry |-> Bit(Shl32(value, (shift - 1) % 32), 31) = 1]

\* Machine::logic_right_c: (value >> shift, value >> (shift - 1) & 1 == 1)
logic_right_c(value, shift) ==
    IF shift = 0 THEN [result |-> value, panic |-> FALSE, carry |-> FALSE]
    ELSE [result |-> Shr32(value, shift % 32),
          panic |-> ShiftOverflow(shift),
          carry |-> Bit(Shr32(value, (shift - 1) % 32), 0) = 1]

\* Machine::arith_right_c:
\* (((value as i32) >> shift) as u32, value >> (shift - 1) & 1 == 1)
arith_right_c(value, shift) ==
    IF shift = 0 THEN [result |-> value, panic |-> FALSE, carry |-> FALSE]
    ELSE [result |-> Sar32(value, shift % 32),
          panic |-> ShiftOverflow(shift),
          carry |-> Bit(Shr32(value, (shift - 1) % 32), 0) = 1]

\* Machine::rotate_right_c: with shift reduced mod 32,
\* result = (value >> shift) | (value << (32 - shift))
rotate_right_c(value, shift) ==
    IF shift = 0 THEN [result |-> value, panic |-> FALSE, carry |-> FALSE]
    ELSE LET sh == shift % 32
             result == Or32(Shr32(value, sh), Shl32(value, (32 - sh) % 32))
         IN  [result |-> result,
              panic |-> ShiftOverflow(32 - sh),
              carry |-> Bit(result, 31) = 1]

\* Machine::rotate_right_extend_c:
\* ((carry_in as u32) << 31 | value >> 1, value & 1 == 1)
rotate_right_extend_c(value, carry_in) ==
    [result |-> Or32(Shl32(Bool32(carry_in), 31), Shr32(value, 1)),
     panic |-> FALSE,
     carry |-> Bit(value, 0) = 1]

\* the variants of Shift
LogicLeft(amount) == [amount |-> amount, k |-> "LogicLeft"]
LogicRight(amount) == [amount |-> amount, k |-> "LogicRight"]
ArithRight(amount) == [amount |-> amount, k |-> "ArithRight"]
RotateRight(amount) == [amount |-> amount, k |-> "RotateRight"]
RotateRightExtend == [k |-> "RotateRightExtend"]
RegShift(k, reg_index) == [k |-> k, reg_index |-> reg_index]

\* Shift::decode(type, imm5)
Shift_decode(type, imm5) ==
    CASE type = 0 -> LogicLeft(imm5)
      [] type = 1 -> LogicRight(IF imm5 % 32 = 0 THEN 32 ELSE imm5)
      [] type = 2 -> ArithRight(IF imm5 % 32 = 0 THEN 32 ELSE imm5)
      [] type = 3 -> IF imm5 % 32 = 0 THEN RotateRightExtend ELSE RotateRight(imm5)

\* arithmetic.rs, Machine::shift_c; the register variants shift by
\* self.cpu.regs[reg_index], held here below 2^16
shift_c(value, shift, carry_in) ==
    CASE shift.k = "LogicLeft" -> logic_left_c(value, shift.amount)
      [] shift.k = "LogicRight" -> logic_right_c(value, shift.amount)
      [] shift.k = "ArithRight" -> arith_right_c(value, shift.amount)
      [] shift.k = "RotateRight" -> rotate_right_c(value, shift.amount)
      [] shift.k = "RotateRightExtend" -> rotate_right_extend_c(value, carry_in)
      [] shift.k = "RegLogicLeft" -> logic_left_c(value, Lo(regs[shift.reg_index]))
      [] shift.k = "RegLogicRight" -> logic_right_c(value, Lo(regs[shift.reg_index]))
      [] shift.k = "RegArithRight" -> arith_right_c(value, Lo(regs[shift.reg_index]))
      [] shift.k = "RegRotateRight" -> rotate_right_c(value, Lo(regs[shift.reg_index]))

-----------------------------------------------------------------------------
(* cpu.rs: views of the CPSR *)

\* CPSRegister::it and set_it: ITSTATE is split into IT[1:0] and IT[7:2]
it(c) == (c.it_high * 4 + c.it_low) % W8
set_it(c, bit) == [c EXCEPT !.it_low = bit % 4, !.it_high = bit \div 4]

in_it_block(c) == it(c) % 16 # 0

\* iset_state and current_instr_set
iset_state(c) == (IF c.j THEN 2 ELSE 0) + (IF c.t THEN 1 ELSE 0)
current_instr_set(c) ==
    CASE iset_state(c) = 0 -> "Arm"
      [] iset_state(c) = 1 -> "Thumb"
      [] iset_state(c) = 2 -> "Jazelle"
      [] iset_state(c) = 3 -> "ThumbEE"

select_instr_set(c, iset) ==
    LET value == CASE iset = "Arm" -> 0 [] iset = "Thumb" -> 1
                   [] iset = "Jazelle" -> 2 [] iset = "ThumbEE" -> 3
    IN  [c EXCEPT !.j = (value \div 2) % 2 = 1, !.t = value % 2 = 1]

\* the bits the APSR view shows: N, Z, C, V, Q and GE[3:0]
apsr(c) == [n |-> c.n, c |-> c.c, z |-> c.z, v |-> c.v, q |-> c.q, ge |-> c.ge]

-----------------------------------------------------------------------------
(* machine.rs: conditions and writes of the PC *)

arch_version == 7

\* condition_passed without the negation by the low bit
condition_passed_unnegated(c, cond) ==
    LET sel == (cond \div 2) % 8
    IN  CASE sel = 0 -> c.z
          [] sel = 1 -> c.c
          [] sel = 2 -> c.n
          [] sel = 3 -> c.v
          [] sel = 4 -> c.c /\ c.z = FALSE
          [] sel = 5 -> c.n = c.v
          [] sel = 6 -> c.n = c.v /\ c.z = FALSE
          [] sel = 7 -> TRUE

condition_passed(c, cond) ==
    LET sel == (cond \div 2) % 8
        result == CASE sel = 0 -> c.z
                    [] sel = 1 -> c.c
                    [] sel = 2 -> c.n
                    [] sel = 3 -> c.v
                    [] sel = 4 -> c.c /\ c.z = FALSE
                    [] sel = 5 -> c.n = c.v
                    [] sel = 6 -> c.n = c.v /\ c.z = FALSE
                    [] sel = 7 -> TRUE
    IN  IF cond % 2 = 1 /\ cond # 15 THEN ~result ELSE result

\* A machine m is [kind, regs, cpsr, data, tx, pcw, host]: the registers, the
\* CPSR and the local array, with the outcome so far (kind: "Ok", "BusError",
\* "Panic", "Blocked"), the bytes written to the link, the path of the last
\* write of R15 and the host at the other end of the link.
Machine(r, c, d) ==
    [regs |-> r, cpsr |-> c, data |-> d, tx |-> <<>>, kind |-> "Ok", pcw |-> "none",
     host |-> QuietHost]
Fail(m, kind) == [m EXCEPT !.kind = kind]

branch_to(m, address) == [m EXCEPT !.regs[PC_INDEX] = address, !.pcw = "branch_to"]

branch_write_pc(m, address) ==
    CASE current_instr_set(m.cpsr) = "Arm" ->
            branch_to(m, <<Hi(address), Lo(address) - (Lo(address) % 4)>>)
      [] current_instr_set(m.cpsr) = "Jazelle" -> Fail(m, "Panic")
      [] OTHER -> branch_to(m, <<Hi(address), Lo(address) - (Lo(address) % 2)>>)

\* a bw_write_pc that keeps bit 0 of the address in the PC
bw_write_pc_unmasked(m, address) ==
    IF current_instr_set(m.cpsr) = "ThumbEE" THEN Fail(m, "Panic")
    ELSE IF Lo(address) % 2 = 1
        THEN branch_to([m EXCEPT !.cpsr = select_instr_set(m.cpsr, "Thumb")], address)
    ELSE IF (Lo(address) \div 2) % 2 = 0
        THEN branch_to([m EXCEPT !.cpsr = select_instr_set(m.cpsr, "Arm")], address)
    ELSE m

bw_write_pc(m, address) ==
    IF current_instr_set(m.cpsr) = "ThumbEE" THEN Fail(m, "Panic")
    ELSE IF Lo(address) % 2 = 1
        THEN branch_to([m EXCEPT !.cpsr = select_instr_set(m.cpsr, "Thumb")],
                       <<Hi(address), Lo(address) - 1>>)
    ELSE IF (Lo(address) \div 2) % 2 = 0
        THEN branch_to([m EXCEPT !.cpsr = select_instr_set(m.cpsr, "Arm")], address)
    ELSE m

alu_write_pc(m, address) ==
    IF arch_version >= 7 /\ current_instr_set(m.cpsr) = "Arm"
    THEN bw_write_pc(m, address)
    ELSE branch_write_pc(m, address)

load_write_pc(m, address) ==
    IF arch_version >= 5 THEN bw_write_pc(m, address)
    ELSE branch_write_pc(m, address)

-----------------------------------------------------------------------------
(* instruction records (yaxpeax_arm::armv7::Instruction) *)

Operand(k, reg, value) == [value |-> value, k |-> k, reg |-> reg]
Nothing == Operand("Nothing", 0, Zero)
Reg(n) == Operand("Reg", n, Zero)
Imm32(v) == Operand("Imm32", 0, v)
RegDeref(n) == Operand("RegDeref", n, Zero)
\* Operand::RegList(registers): bit i of the 16-bit list is register i
RegList(registers) == Operand("RegList", 0, <<0, registers>>)
BranchOffset(v) == Operand("BranchOffset", 0, v)
BranchThumbOffset(v) == Operand("BranchThumbOffset", 0, v)

EQ == 0
NE == 1
AL == 14

Inst(opcode, condition, s, op0, op1, op2, op3) ==
    [s |-> s, opcode |-> opcode, condition |-> condition,
     operands |-> <<op0, op1, op2, op3>>]
NoInst == Inst("none", AL, FALSE, Nothing, Nothing, Nothing, Nothing)

DataProcessing == {"ADC", "ADD", "AND", "BIC", "EOR", "MOV", "MVN", "ORN", "ORR",
                   "RSB", "RSC", "SBC", "SUB"}
\* opcodes whose arm of execute is unimplemented!()
Unimplemented == {"BXJ", "CLREX", "DMB", "DSB", "ENTERX", "ISB", "QADD", "SETEND",
                  "SVC", "UDF", "WFI"}

-----------------------------------------------------------------------------
(* machine.rs: operand I/O *)

\* Machine::read_address
read_address(m, operand) ==
    CASE operand.k = "RegDeref" -> m.regs[operand.reg]

\* Machine::read for the operands that read no memory
read(m, operand) ==
    CASE operand.k = "Imm32" -> operand.value
      [] operand.k = "Reg" -> m.regs[operand.reg]
      [] operand.k = "BranchOffset" -> Shl32(SubU32(operand.value, One).val, 2)
      [] operand.k = "BranchThumbOffset" -> Shl32(SubU32(operand.value, One).val, 1)
      [] operand.k = "RegList" -> operand.value

\* the CPSR branch in an exception return: the execution state bits are
\* written too
write_cpsr_returning(c, mask, value) ==
    [c EXCEPT
        !.n = IF (mask \div 8) % 2 = 1 THEN Bit(value, 31) = 1 ELSE @,
        !.z = IF (mask \div 8) % 2 = 1 THEN Bit(value, 30) = 1 ELSE @,
        !.c = IF (mask \div 8) % 2 = 1 THEN Bit(value, 29) = 1 ELSE @,
        !.v = IF (mask \div 8) % 2 = 1 THEN Bit(value, 28) = 1 ELSE @,
        !.q = IF (mask \div 8) % 2 = 1 THEN Bit(value, 27) = 1 ELSE @,
        !.j = IF (mask \div 8) % 2 = 1 THEN Bit(value, 24) = 1 ELSE @,
        !.ge = IF (mask \div 4) % 2 = 1 THEN Hi(value) % 16 ELSE @,
        !.e = IF (mask \div 2) % 2 = 1 THEN Bit(value, 9) = 1 ELSE @,
        !.t = IF mask % 2 = 1 THEN Bit(value, 5) = 1 ELSE @]

\* Operand::StatusRegMask(status_reg_mask): bit 4 selects the SPSR, bits 3..0
\* are the field mask f, s, x, c
StatusRegMask(mask) == Operand("StatusRegMask", mask, Zero)

\* Machine::write, the CPSR branch of StatusRegMask, with the three locals
\* is_excpt_return, privileged and nmfi as the code sets them
write_cpsr(c, mask, value) ==
    LET is_excpt_return == FALSE
        privileged == FALSE
        nmfi == FALSE
        f == (mask \div 8) % 2 = 1
        s == (mask \div 4) % 2 = 1
        x == (mask \div 2) % 2 = 1
        cc == mask % 2 = 1
        bit(i) == Bit(value, i) = 1
    IN  [c EXCEPT
            !.n = IF f THEN bit(31) ELSE @,
            !.z = IF f THEN bit(30) ELSE @,
            !.c = IF f THEN bit(29) ELSE @,
            !.v = IF f THEN bit(28) ELSE @,
            !.q = IF f THEN bit(27) ELSE @,
            !.it_low = IF f /\ is_excpt_return THEN Bit(value, 26) * 2 + Bit(value, 25)
                       ELSE @,
            !.j = IF f /\ is_excpt_return THEN bit(24) ELSE @,
            !.ge = IF s THEN Hi(value) % 16 ELSE @,
            !.it_high = IF x /\ is_excpt_return THEN (Lo(value) \div 1024) % 64 ELSE @,
            !.e = IF x THEN bit(9) ELSE @,
            !.a = IF x /\ privileged /\ FALSE THEN bit(8) ELSE @,
            !.i = IF cc /\ privileged THEN bit(7) ELSE @,
            !.f = IF cc /\ privileged /\ (~nmfi \/ ~bit(6)) /\ FALSE THEN bit(6) ELSE @,
            !.t = IF cc /\ is_excpt_return THEN bit(5) ELSE @,
            !.m = IF cc /\ privileged THEN Lo(value) % 32 ELSE @]

\* Machine::write: a register operand is assigned, R15 like any other; a
\* StatusRegMask operand writes the fields of the CPSR (the SPSR is not part of
\* the CPU state of cpu.rs)
write(m, operand, value) ==
    IF operand.k = "Reg"
    THEN [m EXCEPT !.regs[operand.reg] = value,
                   !.pcw = IF operand.reg = PC_INDEX THEN "direct" ELSE @]
    ELSE IF operand.k = "StatusRegMask" /\ operand.reg \div 16 # 1
    THEN [m EXCEPT !.cpsr = write_cpsr(m.cpsr, operand.reg % 16, value)]
    ELSE m

-----------------------------------------------------------------------------
(* executor.rs *)

\* the flag write of the data-processing and compare arms
set_nzcv(c, result, carry, overflow) ==
    [c EXCEPT !.n = Bit(result, 31) = 1, !.z = result # Zero,
              !.c = carry, !.v = overflow]

NoCarry(result, c) ==
    [result |-> result, panic |-> FALSE, carry_out |-> FALSE, overflow |-> c.v]

\* the (result, carry, overflow) of a data-processing opcode
alu(opcode, n, mm, c) ==
    CASE opcode = "ADC" -> add_with_carry(n, mm, c.c)
      [] opcode = "ADD" -> add_with_carry(n, mm, FALSE)
      [] opcode = "AND" -> NoCarry(And32(n, mm), c)
      [] opcode = "BIC" -> NoCarry(And32(n, Not32(mm)), c)
      [] opcode = "EOR" -> NoCarry(Xor32(n, mm), c)
      [] opcode = "MOV" -> NoCarry(mm, c)
      [] opcode = "MVN" -> NoCarry(Not32(mm), c)
      [] opcode = "ORN" -> NoCarry(Or32(n, Not32(mm)), c)
      [] opcode = "ORR" -> NoCarry(Or32(n, mm), c)
      [] opcode = "RSB" -> add_with_carry(Not32(n), mm, FALSE)
      [] opcode = "RSC" -> add_with_carry(Not32(n), mm, c.c)
      [] opcode = "SBC" -> add_with_carry(n, Not32(mm), c.c)
      [] opcode = "SUB" -> add_with_carry(n, Not32(mm), TRUE)

\* a flag write that ignores S
setflags_always(i) == TRUE
\* the guard of the flag write of the data-processing arm
setflags(i) == i.s

\* the data-processing arm: operands, result, destination, flags
data_processing(m, i) ==
    LET two == i.operands[3].k = "Nothing"
        d == i.operands[1]
        n == read(m, IF two THEN i.operands[1] ELSE i.operands[2])
        mm == read(m, IF two THEN i.operands[2] ELSE i.operands[3])
        r == alu(i.opcode, n, mm, m.cpsr)
        w == IF d.reg = PC_INDEX THEN alu_write_pc(m, r.result)
             ELSE write(m, d, r.result)
    IN  IF r.panic \/ d.k # "Reg" THEN Fail(m, "Panic")
        ELSE IF w.kind = "Ok" /\ setflags(i)
            THEN [w EXCEPT !.cpsr = set_nzcv(w.cpsr, r.result, r.carry_out, r.overflow)]
        ELSE w

\* CMN, CMP
compare(m, i) ==
    LET n == read(m, i.operands[1])
        mm == read(m, i.operands[2])
        r == IF i.opcode = "CMN" THEN add_with_carry(n, mm, FALSE)
             ELSE add_with_carry(n, Not32(mm), TRUE)
    IN  IF r.panic THEN Fail(m, "Panic")
        ELSE [m EXCEPT !.cpsr = set_nzcv(m.cpsr, r.result, r.carry_out, r.overflow)]

\* TEQ, TST
test(m, i) ==
    LET n == read(m, i.operands[1])
        mm == read(m, i.operands[2])
        result == IF i.opcode = "TEQ" THEN Xor32(n, mm) ELSE And32(n, mm)
    IN  [m EXCEPT !.cpsr.n = Bit(result, 31) = 1, !.cpsr.z = result # Zero,
                  !.cpsr.c = FALSE]

\* PC + offset, the u32 sum of B, CBZ and CBNZ
pc_plus(m, offset) ==
    LET sum == AddU32(m.regs[PC_INDEX], offset)
    IN  IF overflow_checks /\ sum.ovf THEN Fail(m, "Panic")
        ELSE branch_write_pc(m, sum.val)

\* CBNZ, CBZ: before the condition check
compare_branch(m, i) ==
    LET nonzero == i.opcode = "CBNZ"
        n == read(m, i.operands[1])
        mm == read(m, i.operands[2])
    IN  IF nonzero # (n = Zero) THEN pc_plus(m, mm) ELSE m

\* SADD16, UADD16
add16(m, i) ==
    LET n == read(m, i.operands[2])
        mm == read(m, i.operands[3])
        sum1 == Lo(n) + Lo(mm)
        sum2 == Hi(n) + Hi(mm)
        w == write(m, i.operands[1], <<sum2 % W16, sum1 % W16>>)
        \* a sum of two 16-bit numbers is never negative as an i32
        ge2 == IF i.opcode = "SADD16" THEN TRUE ELSE sum2 >= W16
        ge1 == IF i.opcode = "SADD16" THEN TRUE ELSE sum1 >= W16
    IN  [w EXCEPT !.cpsr.ge = (IF ge2 THEN 12 ELSE 0) + (IF ge1 THEN 3 ELSE 0)]

\* SADD8, UADD8: sum[i] = n[i] + m[i] is an addition of two u8; the inner loop
\* over 0..4 sets every bit of ge when the test of the lane at hand passes
add8(m, i) ==
    LET n == to_le_bytes(read(m, i.operands[2]))
        mm == to_le_bytes(read(m, i.operands[3]))
        sum == [k \in 1..4 |-> n[k] + mm[k]]
        passes(k) == IF i.opcode = "SADD8" THEN sum[k] % W8 < 128 ELSE sum[k] >= W8
        ge == IF \E k \in 1..4 : passes(k) THEN 15 ELSE 0
        written_back(w) == IF w.kind # "Ok" THEN w ELSE [w EXCEPT !.cpsr.ge = ge]
    IN  IF overflow_checks /\ \E k \in 1..4 : sum[k] >= W8 THEN Fail(m, "Panic")
        ELSE written_back(write(m, i.operands[1],
                                from_le_bytes([k \in 1..4 |-> sum[k] % W8])))

\* IT: ITSTATE <- (firstcond << 4 | mask) as u8
it_arm(m, i) ==
    LET firstcond == read(m, i.operands[1])
        mask == read(m, i.operands[2])
        value == Or16((Lo(firstcond) * 16) % W8, Lo(mask) % W8)
    IN  [m EXCEPT !.cpsr = set_it(m.cpsr, value)]

\* MSR CPSR_<fields>, R1
MSR_CPSR(mask) == Inst("MSR", AL, FALSE, StatusRegMask(mask), Reg(1), Nothing, Nothing)

\* LDR: the word at the address, to Rt or through load_write_pc to R15, then
\* the write-back of the address operand
\* the match on the opcode after the word is read: word & 0xff, word & 0xffff,
\* (word & 0xff) as i8 as i32 as u32, (word & 0xffff) as i16 as i32 as u32
narrowed(opcode, word) ==
    CASE opcode \in {"LDRB", "LDRBT"} -> <<0, Lo(word) % W8>>
      [] opcode \in {"LDRH", "LDRHT"} -> <<0, Lo(word)>>
      [] opcode \in {"LDRSB", "LDRSBT"} ->
            IF Lo(word) % W8 >= 128 THEN <<W16 - 1, W16 - W8 + (Lo(word) % W8)>>
            ELSE <<0, Lo(word) % W8>>
      [] opcode \in {"LDRSH", "LDRSHT"} ->
            IF Lo(word) >= W15 THEN <<W16 - 1, Lo(word)>> ELSE <<0, Lo(word)>>
      [] OTHER -> word

load(m, i) ==
    LET t == i.operands[1]
        address == read_address(m, i.operands[2])
        written_back(m2) ==
            IF m2.kind # "Ok" THEN m2 ELSE write(m2, i.operands[2], address)
        loaded(m1, r) ==
            IF r.kind # "Ok" THEN Fail(m1, r.kind)
            ELSE IF t.k # "Reg" THEN Fail(m1, "Panic")
            ELSE written_back(IF t.reg = PC_INDEX
                                  THEN load_write_pc(m1, narrowed(i.opcode, r.val))
                              ELSE write(m1, t, narrowed(i.opcode, r.val)))
        word_read(r) == loaded([m EXCEPT !.tx = @ \o r.tx], r)
    IN  word_read(read_memory_word(m.data, address, m.host))

\* STR: the word of Rt to the address, then the write-back of the address
\* operand
store(m, i) ==
    LET address == read_address(m, i.operands[2])
        word == read(m, i.operands[1])
        stored(m1, r) ==
            IF r.kind # "Ok" THEN Fail(m1, r.kind)
            ELSE write(m1, i.operands[2], address)
        word_written(r) == stored([m EXCEPT !.data = r.data, !.tx = @ \o r.tx], r)
    IN  word_written(write_memory_word(m.data, address, word))

\* the loop of PUSH, `for i in (0..16).rev()`, at register i with the address
\* reached so far: address -= 4, then the word of register i is written; the
\* first failing write ends it before SP is set
RECURSIVE push_loop(_, _, _, _)
push_loop(m, registers, i, address) ==
    IF i < 0 THEN [m EXCEPT !.regs[SP_INDEX] = address]
    ELSE IF (registers \div Pow2(i)) % 2 # 1
        THEN push_loop(m, registers, i - 1, address)
    ELSE LET a == SubU32(address, U32(4))
             word_written(r) ==
                IF r.kind # "Ok"
                    THEN Fail([m EXCEPT !.data = r.data, !.tx = @ \o r.tx], r.kind)
                ELSE push_loop([m EXCEPT !.data = r.data, !.tx = @ \o r.tx],
                               registers, i - 1, a.val)
         IN  IF overflow_checks /\ a.ovf THEN Fail(m, "Panic")
             ELSE word_written(write_memory_word(m.data, a.val, m.regs[i]))

\* the loop of POP, `for i in 0..16`: the word at the address goes to register
\* i, or through load_write_pc to R15, then address += 4
RECURSIVE pop_loop(_, _, _, _)
pop_loop(m, registers, i, address) ==
    IF i > 15 THEN [m EXCEPT !.regs[SP_INDEX] = address]
    ELSE IF (registers \div Pow2(i)) % 2 # 1
        THEN pop_loop(m, registers, i + 1, address)
    ELSE LET a == AddU32(address, U32(4))
             loaded(m1) ==
                IF m1.kind # "Ok" THEN m1
                ELSE IF overflow_checks /\ a.ovf THEN Fail(m1, "Panic")
                ELSE pop_loop(m1, registers, i + 1, a.val)
             word_read(r) ==
                IF r.kind # "Ok" THEN Fail([m EXCEPT !.tx = @ \o r.tx], r.kind)
                ELSE IF i # PC_INDEX
                    THEN loaded([m EXCEPT !.regs[i] = r.val, !.tx = @ \o r.tx])
                ELSE loaded(load_write_pc([m EXCEPT !.tx = @ \o r.tx], r.val))
         IN  word_read(read_memory_word(m.data, address, m.host))

\* POP, PUSH
pop(m, i) == pop_loop(m, Lo(read(m, i.operands[1])), 0, m.regs[SP_INDEX])
push(m, i) == push_loop(m, Lo(read(m, i.operands[1])), 15, m.regs[SP_INDEX])

\* Machine::align(address, 4) followed by `+ imm32`, both u32 additions
aligned_plus(address, imm32) ==
    LET up == AddU32(address, U32(3))
        sum == AddU32(<<Hi(up.val), Lo(up.val) - (Lo(up.val) % 4)>>, imm32)
    IN  [val |-> sum.val, ovf |-> up.ovf \/ sum.ovf]

\* BL, BLX: the link register, then the branch; an operand that is neither
\* BranchThumbOffset nor Reg is unreachable!()
branch_link(m, i) ==
    LET op == i.operands[1]
        pc == m.regs[PC_INDEX]
        arm == current_instr_set(m.cpsr) = "Arm"
        back4 == SubU32(pc, U32(4))
        back2 == SubU32(pc, U32(2))
        target == aligned_plus(pc, op.value)
    IN  CASE op.k = "BranchThumbOffset" ->
                IF overflow_checks /\ ((arm /\ back4.ovf) \/ target.ovf)
                    THEN Fail(m, "Panic")
                ELSE branch_write_pc(
                        [m EXCEPT !.regs[LR_INDEX] =
                                        IF arm THEN back4.val ELSE <<Hi(pc), Or16(Lo(pc), 1)>>,
                                  !.cpsr = select_instr_set(m.cpsr, "Arm")],
                        target.val)
          [] op.k = "Reg" ->
                IF overflow_checks /\ ((arm /\ back4.ovf) \/ (~arm /\ back2.ovf))
                    THEN Fail(m, "Panic")
                ELSE bw_write_pc(
                        [m EXCEPT !.regs[LR_INDEX] =
                                        IF arm THEN back4.val
                                        ELSE <<Hi(back2.val), Or16(Lo(back2.val), 1)>>],
                        m.regs[op.reg])
          [] OTHER -> Fail(m, "Panic")

\* the arms of the second match of execute
execute_opcode(m, i) ==
    CASE i.opcode \in DataProcessing -> data_processing(m, i)
      [] i.opcode = "B" -> pc_plus(m, read(m, i.operands[1]))
      [] i.opcode \in {"BL", "BLX"} -> branch_link(m, i)
      [] i.opcode = "BX" -> bw_write_pc(m, read(m, i.operands[1]))
      [] i.opcode = "CLZ" ->
            write(m, i.operands[1], U32(leading_zeros(read(m, i.operands[2]))))
      [] i.opcode \in {"CMN", "CMP"} -> compare(m, i)
      [] i.opcode \in {"TEQ", "TST"} -> test(m, i)
      [] i.opcode = "IT" -> it_arm(m, i)
      [] i.opcode \in {"LDR", "LDRB", "LDRBT", "LDRH", "LDRHT", "LDRSB", "LDRSBT",
                        "LDRSH", "LDRSHT", "LDRT"} -> load(m, i)
      [] i.opcode = "STR" -> store(m, i)
      [] i.opcode = "MSR" -> write(m, i.operands[1], read(m, i.operands[2]))
      [] i.opcode = "NOP" -> m
      [] i.opcode = "POP" -> pop(m, i)
      [] i.opcode = "PUSH" -> push(m, i)
      [] i.opcode \in {"SADD8", "UADD8"} -> add8(m, i)
      [] i.opcode \in {"SADD16", "UADD16"} -> add16(m, i)
      [] i.opcode \in Unimplemented -> Fail(m, "Panic")

\* an execute without the condition check
execute_unconditionally(m, i) ==
    IF i.opcode = "BKPT" THEN m
    ELSE IF i.opcode \in {"CBNZ", "CBZ"} THEN compare_branch(m, i)
    ELSE execute_opcode(m, i)

\* Machine::execute
execute(m, i) ==
    IF i.opcode = "BKPT" THEN m
    ELSE IF i.opcode \in {"CBNZ", "CBZ"} THEN compare_branch(m, i)
    ELSE IF ~condition_passed(m.cpsr, i.condition) THEN m
    ELSE execute_opcode(m, i)

-----------------------------------------------------------------------------
(* machine.rs: the fetch cursor (Reader) and the run loop *)

\* Reader::next_n(buf) with n = buf.len(): the bound check, then n times next(),
\* each reading a byte of the image at the PC and advancing the PC by one
RECURSIVE next_bytes(_, _, _)
next_bytes(m, n, h) ==
    IF n = 0 \/ m.kind # "Ok" THEN m
    ELSE LET address == m.regs[PC_INDEX]
             byte_read(r) ==
                next_bytes(
                    [m EXCEPT !.regs[PC_INDEX] = AddU32(address, One).val,
                              !.tx = @ \o r.tx,
                              !.kind = IF r.kind = "Ok" THEN "Ok" ELSE r.kind],
                    n - 1, h)
         IN  IF Ge32(address, U32(size)) THEN Fail(m, "ExhaustedInput")
             ELSE byte_read(read_memory(m.data, address, h))

\* `buf.len() + self.cpu.regs[PC_INDEX] as usize > self.memory.size()`: the sum
\* is a usize, 32 bits wide on the Cortex-M the crate is built for
next_n(m, n, h) ==
    LET end == AddU32(U32(n), m.regs[PC_INDEX])
    IN  IF overflow_checks /\ end.ovf THEN Fail(m, "Panic")
        ELSE IF Lt32(U32(size), end.val) THEN Fail(m, "ExhaustedInput")
        ELSE next_bytes(m, n, h)

\* Reader::offset: self.cpu.regs[PC_INDEX] - self.mark
Reader_offset(pc, mark) ==
    LET d == SubU32(pc, mark)
    IN  [val |-> d.val, kind |-> IF overflow_checks /\ d.ovf THEN "Panic" ELSE "Ok"]

\* the three regions of the address space
IsLocal(address) == Lt32(address, U32(INTERNAL_SIZE))
IsRemote(address) == ~IsLocal(address) /\ Lt32(address, U32(size))
IsBeyond(address) == Ge32(address, U32(size))

-----------------------------------------------------------------------------
(* initial state *)

NoCall == [fn |-> "none"]

\* Machine::default(), with the serial port idle and nothing decoded yet
MachineDefault ==
    /\ regs = [r \in 0..15 |-> Zero]
    /\ cpsr = CPSRegister_default
    /\ data = <<>>
    /\ tx = <<>>
    /\ inst = NoInst
    /\ fetch_address = Zero
    /\ pc_write = "none"
    /\ last = NoInst
    /\ steps = 0

-----------------------------------------------------------------------------
(* SpecArith: the arithmetic primitives applied to chosen operands *)

Words == {Zero, One, U32(2), IntMax, IntMin, <<W15, 1>>, <<W16 - 1, W16 - 2>>, Ones}

InitArith ==
    /\ MachineDefault
    /\ status = "harness"
    /\ overflow_checks \in BOOLEAN
    /\ call = NoCall
    /\ ret = NoCall
    /\ written = <<>>

CallAddWithCarry ==
    \E x \in Words, y \in Words, carry_in \in BOOLEAN :
        /\ call' = [x |-> x, y |-> y, carry_in |-> carry_in, fn |-> "add_with_carry"]
        /\ ret' = add_with_carry(x, y, carry_in)
        /\ UNCHANGED <<regs, cpsr, data, tx, status, inst, fetch_address, pc_write,
                       last, steps, overflow_checks, written>>

NextArith == CallAddWithCarry

SpecArith == InitArith /\ [][NextArith]_vars

-----------------------------------------------------------------------------
(* SpecPc: bw_write_pc called from ARM and Thumb state *)

Targets == {Zero, One, U32(2), U32(3), U32(4), U32(6), U32(7), U32(8),
            <<1, 1>>, <<1, 2>>, <<1, 4>>, <<2, 0>>, <<2, 5>>, IntMin, Ones,
            <<W16 - 1, W16 - 2>>}

InitPc ==
    /\ MachineDefault
    /\ status = "harness"
    /\ overflow_checks \in BOOLEAN
    /\ call = NoCall
    /\ ret = NoCall
    /\ written = <<>>

\* machine.bw_write_pc(address)
CallBwWritePc ==
    /\ status = "harness"
    /\ \E address \in Targets :
         \E m \in {bw_write_pc(Machine(regs, cpsr, data), address)} :
            /\ call' = [address |-> address, fn |-> "bw_write_pc"]
            /\ ret' = [kind |-> m.kind]
            /\ regs' = m.regs
            /\ cpsr' = m.cpsr
            /\ pc_write' = m.pcw
            /\ UNCHANGED <<data, tx, status, inst, fetch_address, last, steps,
                           overflow_checks, written>>

NextPc == CallBwWritePc

SpecPc == InitPc /\ [][NextPc]_vars

-----------------------------------------------------------------------------
(* SpecShift: shift_c called with chosen values and every amount below 32 *)

Amounts == 0..31

InitShift ==
    /\ MachineDefault
    /\ status = "harness"
    /\ overflow_checks \in BOOLEAN
    /\ call = NoCall
    /\ ret = NoCall
    /\ written = <<>>

\* machine.shift_c(value, Shift::LogicLeft(amount), carry_in)
CallShiftC ==
    \E value \in Words, amount \in Amounts, carry_in \in BOOLEAN :
        /\ call' = [carry_in |-> carry_in, value |-> value, amount |-> amount,
                    fn |-> "shift_c"]
        /\ ret' = shift_c(value, LogicLeft(amount), carry_in)
        /\ UNCHANGED <<regs, cpsr, data, tx, status, inst, fetch_address, pc_write,
                       last, steps, overflow_checks, written>>

NextShift == CallShiftC

SpecShift == InitShift /\ [][NextShift]_vars

-----------------------------------------------------------------------------
(* SpecTotal: shift_c on every decoded shift and on register amounts up to *)
(* 255, and add_with_carry *)

\* the amounts a register supplies: its low 8 bits
RegisterAmounts == {0, 1, 31, 32, 33, 64, 255}
RegisterShifts == {"RegLogicLeft", "RegLogicRight", "RegArithRight", "RegRotateRight"}
ShiftTypes == 0..3
ShiftValues == {Zero, <<W15, 1>>, Ones}

InitTotal ==
    /\ MachineDefault
    /\ status = "harness"
    /\ overflow_checks \in BOOLEAN
    /\ call = NoCall
    /\ ret = NoCall
    /\ written = <<>>

\* machine.shift_c(value, Shift::decode(type, imm5), carry_in); the carry is
\* read by the arm of RotateRightExtend only, which type 3 alone decodes to
CallDecodedShift ==
    \E value \in ShiftValues, type \in ShiftTypes, imm5 \in Amounts,
       carry_in \in BOOLEAN :
        /\ carry_in => type = 3
        /\ call' = [carry_in |-> carry_in, value |-> value, shift |-> Shift_decode(type, imm5),
                    fn |-> "shift_c"]
        /\ ret' = shift_c(value, Shift_decode(type, imm5), carry_in)
        /\ UNCHANGED <<regs, cpsr, data, tx, status, inst, fetch_address, pc_write,
                       last, steps, overflow_checks, written>>

\* the shift amount is put in R1
LoadAmount ==
    \E amount \in RegisterAmounts :
        /\ regs' = [regs EXCEPT ![1] = U32(amount)]
        /\ call' = NoCall
        /\ ret' = NoCall
        /\ UNCHANGED <<cpsr, data, tx, status, inst, fetch_address, pc_write,
                       last, steps, overflow_checks, written>>

\* machine.shift_c(value, Shift::decode_reg(type, 1), carry_in), and the same
\* for Shift::RegRotateRight(1)
CallRegisterShift ==
    \E value \in ShiftValues, k \in RegisterShifts :
        /\ call' = [carry_in |-> FALSE, value |-> value, shift |-> RegShift(k, 1),
                    fn |-> "shift_c"]
        /\ ret' = shift_c(value, RegShift(k, 1), FALSE)
        /\ UNCHANGED <<regs, cpsr, data, tx, status, inst, fetch_address, pc_write,
                       last, steps, overflow_checks, written>>

NextTotal == CallDecodedShift \/ LoadAmount \/ CallRegisterShift \/ CallAddWithCarry

SpecTotal == InitTotal /\ [][NextTotal]_vars

-----------------------------------------------------------------------------
(* SpecCond: condition_passed called with every condition under every NZCV *)

\* cond as u8: the four bits of a condition field
Conditions == 0..15

InitCond ==
    /\ MachineDefault
    /\ status = "harness"
    /\ overflow_checks \in BOOLEAN
    /\ call = NoCall
    /\ ret = NoCall
    /\ written = <<>>

\* the flags are set as a flag-setting instruction would leave them, then
\* machine.condition_passed(cond) is called
CallConditionPassed ==
    \E cond \in Conditions, n \in BOOLEAN, z \in BOOLEAN, c \in BOOLEAN, v \in BOOLEAN :
        LET apsr_ == [cpsr EXCEPT !.n = n, !.z = z, !.c = c, !.v = v]
        IN  /\ cpsr' = apsr_
            /\ call' = [cond |-> cond, fn |-> "condition_passed"]
            /\ ret' = [val |-> condition_passed(apsr_, cond), fn |-> "condition_passed"]
            /\ UNCHANGED <<regs, data, tx, status, inst, fetch_address, pc_write,
                           last, steps, overflow_checks, written>>

NextCond == CallConditionPassed

SpecCond == InitCond /\ [][NextCond]_vars

-----------------------------------------------------------------------------
(* SpecMem: the byte accessors of the memory called with chosen addresses *)

Local == {Zero, One, U32(INTERNAL_SIZE - 1)}
Remote == {U32(INTERNAL_SIZE), U32(INTERNAL_SIZE + 2), U32(INTERNAL_SIZE + 92),
           U32(INTERNAL_SIZE + 255),
           U32(size - 1)}
Beyond == {U32(size), U32(size + 1), IntMin, Ones}
Addresses == Local \cup Remote \cup Beyond
Bytes == {0, 1, 255}

InitMem ==
    /\ MachineDefault
    /\ status = "harness"
    /\ overflow_checks \in BOOLEAN
    /\ call = NoCall
    /\ ret = NoCall
    /\ written = <<>>

\* machine.read_memory(address)
CallReadMemory ==
    \E address \in Addresses, h \in Hosts :
        LET r == read_memory(data, address, h)
        IN  /\ status = "harness"
            /\ address \notin Remote => h = QuietHost
            /\ call' = [address |-> address, host |-> h, fn |-> "read_memory"]
            /\ ret' = [val |-> r.val, kind |-> r.kind]
            /\ tx' = r.tx
            /\ status' = IF r.kind = "Panic" THEN "panicked" ELSE status
            /\ UNCHANGED <<regs, cpsr, data, inst, fetch_address, pc_write, last,
                           steps, overflow_checks, written>>

\* machine.write_memory(address, bit)
CallWriteMemory ==
    \E address \in Addresses, bit \in Bytes :
        LET r == write_memory(data, address, bit)
        IN  /\ status = "harness"
            /\ call' = [address |-> address, bit |-> bit, fn |-> "write_memory"]
            /\ ret' = [val |-> 0, kind |-> r.kind]
            /\ data' = r.data
            /\ tx' = r.tx
            /\ status' = IF r.kind = "Panic" THEN "panicked" ELSE status
            /\ written' = IF r.kind = "Ok"
                              THEN [a \in DOMAIN written \cup {address} |->
                                       IF a = address THEN bit ELSE written[a]]
                              ELSE written
            /\ UNCHANGED <<regs, cpsr, inst, fetch_address, pc_write, last, steps,
                           overflow_checks>>

NextMem == CallReadMemory \/ CallWriteMemory

SpecMem == InitMem /\ [][NextMem]_vars

-----------------------------------------------------------------------------
(* SpecProto: Command::send called with chosen commands and host answers *)

CommandAddresses == {Zero, U32(92), U32(255), U32(170), <<23551, 65372>>,
                     <<4660, 22136>>, Ones, <<65372, 85>>}
Commands ==
    {ReadMemory(a) : a \in CommandAddresses}
    \cup {WriteMemory(a, v) : a \in CommandAddresses, v \in {0, 92, 255}}

\* what the host answers to the handshake: nak bytes that are not 0x55, then
\* 0x55, or nothing more
Answers ==
    {[i \in 1..nak |-> 0] \o ack : nak \in 0..MaxNak, ack \in {<<READY_ACK>>, <<>>}}

InitProto ==
    /\ MachineDefault
    /\ status = "harness"
    /\ overflow_checks \in BOOLEAN
    /\ call = NoCall
    /\ ret = NoCall
    /\ written = <<>>

\* command.send(serial)
CallSend ==
    \E c \in Commands, rx \in Answers :
        LET r == send(c, rx)
        IN  /\ status = "harness"
            /\ call' = [rx |-> rx, fn |-> "send", command |-> c]
            /\ ret' = [blocked |-> r.blocked, log |-> r.log]
            /\ tx' = r.tx
            /\ status' = IF r.blocked THEN "blocked" ELSE status
            /\ UNCHANGED <<regs, cpsr, data, inst, fetch_address, pc_write, last,
                           steps, overflow_checks, written>>

NextProto == CallSend

SpecProto == InitProto /\ [][NextProto]_vars

-----------------------------------------------------------------------------
(* SpecSerial: a remote read_memory byte by byte, with another user of the  *)
(* serial port that runs whenever interrupts are enabled                    *)

MaxReads == 2
MaxOthers == 2

\* cortex_m::interrupt::free(f): interrupts are disabled while f runs
interrupt_free_unmasked == FALSE
interrupt_free == TRUE

\* the exchange in progress: where read_memory is, whether interrupts are
\* disabled, the bytes still to write, what the host will answer, and the
\* state (data, escape) of receive_data
Idle ==
    [rx |-> <<>>, acc |-> <<>>, escape |-> FALSE, pc |-> "idle",
     fn |-> "remote_read", primask |-> FALSE, todo |-> <<>>]

\* the bytes on the link so far, each with who moved it
Vm(op, b) == <<"vm", op, b>>
Other(b) == <<"other", "write", b>>
OthersOnLink == {i \in 1..Len(tx) : tx[i][1] = "other"}

InitSerial ==
    /\ MachineDefault
    /\ status = "harness"
    /\ overflow_checks \in BOOLEAN
    /\ call = Idle
    /\ ret = NoCall
    /\ written = <<>>

\* read_memory(address) takes the remote branch and enters interrupt::free
EnterRemoteRead ==
    \E address \in {U32(INTERNAL_SIZE + 2), U32(INTERNAL_SIZE + 92)}, h \in Hosts :
        LET offset == U32(ToNat(address) - INTERNAL_SIZE)
            c == ReadMemory(offset)
        IN  /\ status = "harness" /\ call.pc = "idle"
            /\ h.seed = QuietHost.seed
            /\ steps < MaxReads
            /\ steps' = steps + 1
            /\ call' = [Idle EXCEPT !.pc = "ready_write", !.primask = interrupt_free,
                                    !.rx = HostAnswer(h, offset),
                                    !.todo = <<head(c)>> \o escape_payload(command_data(c))
                                             \o <<FRAME_END>>]
            /\ UNCHANGED <<regs, cpsr, data, tx, status, inst, fetch_address, pc_write,
                           last, overflow_checks, ret, written>>

\* ensure_ready: serial.write(0xaa); serial.flush()
ReadyWrite ==
    /\ call.pc = "ready_write"
    /\ tx' = Append(tx, Vm("write", READY))
    /\ call' = [call EXCEPT !.pc = "ready_read"]
    /\ UNCHANGED <<regs, cpsr, data, status, inst, fetch_address, pc_write, last,
                   steps, overflow_checks, ret, written>>

\* ensure_ready: serial.read()? == 0x55
ReadyRead ==
    /\ call.pc = "ready_read" /\ call.rx # <<>>
    /\ tx' = Append(tx, Vm("read", call.rx[1]))
    /\ call' = [call EXCEPT !.rx = Tail(@),
                            !.pc = IF call.rx[1] = READY_ACK THEN "frame"
                                   ELSE "ready_write"]
    /\ UNCHANGED <<regs, cpsr, data, status, inst, fetch_address, pc_write, last,
                   steps, overflow_checks, ret, written>>

\* send: the header, the escaped payload and the terminator, one byte each
FrameWrite ==
    /\ call.pc = "frame"
    /\ tx' = Append(tx, Vm("write", call.todo[1]))
    /\ call' = [call EXCEPT !.todo = Tail(@),
                            !.pc = IF Len(call.todo) = 1 THEN "receive" ELSE "frame"]
    /\ UNCHANGED <<regs, cpsr, data, status, inst, fetch_address, pc_write, last,
                   steps, overflow_checks, ret, written>>

\* receive_data: one turn of its loop
Receive ==
    /\ call.pc = "receive" /\ call.rx # <<>>
    /\ LET byte == call.rx[1] IN
        /\ tx' = Append(tx, Vm("read", byte))
        /\ call' = IF ~call.escape /\ byte = ESCAPE_CHAR
                        THEN [call EXCEPT !.rx = Tail(@), !.escape = TRUE]
                    ELSE IF ~call.escape /\ byte = FRAME_END
                        THEN [call EXCEPT !.rx = Tail(@), !.pc = "exit"]
                    ELSE [call EXCEPT !.rx = Tail(@), !.escape = FALSE,
                                      !.acc = Append(@, byte)]
    /\ UNCHANGED <<regs, cpsr, data, status, inst, fetch_address, pc_write, last,
                   steps, overflow_checks, ret, written>>

\* Ok(receive_data(serial)?[0]) and the end of interrupt::free; the index of
\* an empty response panics inside the closure
LeaveRemoteRead ==
    /\ call.pc = "exit"
    /\ IF call.acc = <<>>
        THEN /\ status' = "panicked"
             /\ ret' = [val |-> 0, kind |-> "Panic"]
             /\ call' = [call EXCEPT !.pc = "panicked"]
        ELSE /\ status' = status
             /\ ret' = [val |-> call.acc[1], kind |-> "Ok"]
             /\ call' = Idle
    /\ UNCHANGED <<regs, cpsr, data, tx, inst, fetch_address, pc_write, last, steps,
                   overflow_checks, written>>

\* another user of SERIAL, run by an interrupt: it can take the cell only
\* while interrupts are enabled, and writes a byte of its own
OtherUser ==
    /\ ~call.primask
    /\ Cardinality(OthersOnLink) < MaxOthers
    /\ tx' = Append(tx, Other(0))
    /\ UNCHANGED <<regs, cpsr, data, status, inst, fetch_address, pc_write, last,
                   steps, overflow_checks, call, ret, written>>

NextSerial ==
    \/ EnterRemoteRead \/ ReadyWrite \/ ReadyRead \/ FrameWrite \/ Receive
    \/ LeaveRemoteRead \/ OtherUser

SpecSerial == InitSerial /\ [][NextSerial]_vars

-----------------------------------------------------------------------------
(* SpecWord: STR R2,[R1] and LDR R3,[R1] executed with chosen R1 and R2 *)

WordAddresses == {Zero, One, U32(256), U32(INTERNAL_SIZE - 4), U32(INTERNAL_SIZE - 2),
                  U32(INTERNAL_SIZE), U32(size - 2), Ones}
StoredWords == {<<57005, 48879>>, <<258, 772>>, <<0, 65372>>}

STR_R2_R1 == Inst("STR", AL, FALSE, Reg(2), RegDeref(1), Nothing, Nothing)
LDR_R3_R1 == Inst("LDR", AL, FALSE, Reg(3), RegDeref(1), Nothing, Nothing)

InitWord ==
    /\ \E a \in WordAddresses, w \in StoredWords :
            regs = [r \in 0..15 |-> CASE r = 1 -> a [] r = 2 -> w [] OTHER -> Zero]
    /\ cpsr = CPSRegister_default
    /\ data = <<>>
    /\ tx = <<>>
    /\ inst = NoInst
    /\ fetch_address = Zero
    /\ pc_write = "none"
    /\ last = NoInst
    /\ steps = 0
    /\ status = "harness"
    /\ overflow_checks \in BOOLEAN
    /\ call = NoCall
    /\ ret = NoCall
    /\ written = <<>>

\* machine.execute(i) for an instruction i that accesses memory
ExecuteOn(i, h) ==
    /\ status = "harness"
    /\ \E m \in {execute([Machine(regs, cpsr, data) EXCEPT !.host = h], i)} :
        /\ call' = [host |-> h, fn |-> i.opcode]
        /\ ret' = [kind |-> m.kind]
        /\ regs' = m.regs
        /\ cpsr' = m.cpsr
        /\ data' = m.data
        /\ tx' = m.tx
        /\ pc_write' = m.pcw
        /\ last' = i
        /\ status' = IF m.kind = "Ok" THEN "harness" ELSE "panicked"
        /\ written' = IF m.kind = "Ok" /\ i.opcode = "STR"
                          THEN [a \in {regs[1]} |-> regs[2]] ELSE written
        /\ UNCHANGED <<inst, fetch_address, steps, overflow_checks>>

StoreWord == ExecuteOn(STR_R2_R1, QuietHost)

LoadWord ==
    \E h \in Hosts :
        /\ (\A i \in 0..3 : ~IsRemote(AddU32(regs[1], U32(i)).val)) => h = QuietHost
        /\ ExecuteOn(LDR_R3_R1, h)

NextWord == StoreWord \/ LoadWord

SpecWord == InitWord /\ [][NextWord]_vars

-----------------------------------------------------------------------------
(* SpecStack: PUSH {list}, writes to the pushed registers, POP {list} *)

\* {R0}; {R0, R1, R4}; {R4, LR}; {R0, PC}
RegisterLists == {1, 19, 16400, 32769}
\* within the local array, at its start and at its end; within the remote
\* region and at the end of the memory
StackPointers == {U32(256), U32(8), Zero, U32(INTERNAL_SIZE), U32(INTERNAL_SIZE + 64),
                  U32(size)}

Listed(registers, r) == (registers \div Pow2(r)) % 2 = 1
ListedRegisters(registers) == {r \in 0..15 : Listed(registers, r)}

InitStack ==
    /\ \E sp \in StackPointers :
            regs = [r \in 0..15 |-> IF r = SP_INDEX THEN sp ELSE <<r + 1, 4 * r + 513>>]
    /\ cpsr = CPSRegister_default
    /\ data = <<>>
    /\ tx = <<>>
    /\ inst = NoInst
    /\ fetch_address = Zero
    /\ pc_write = "none"
    /\ last = NoInst
    /\ steps = 0
    /\ status = "harness"
    /\ overflow_checks \in BOOLEAN
    /\ call = NoCall
    /\ ret = NoCall
    /\ written = <<>>

\* machine.execute(i) for i one of PUSH, MOV and POP; registers is the list of
\* the PUSH that is open, and saved the registers before that PUSH
ExecuteStack(i, registers, saved) ==
    /\ status = "harness"
    /\ \E m \in {execute(Machine(regs, cpsr, data), i)} :
        /\ call' = [registers |-> registers, fn |-> i.opcode]
        /\ ret' = [kind |-> m.kind]
        /\ regs' = m.regs
        /\ cpsr' = m.cpsr
        /\ data' = m.data
        /\ tx' = m.tx
        /\ pc_write' = m.pcw
        /\ last' = i
        /\ status' = IF m.kind = "Ok" THEN "harness" ELSE "panicked"
        /\ written' = saved
        /\ UNCHANGED <<inst, fetch_address, steps, overflow_checks>>

PushRegisters ==
    /\ call.fn \in {"none", "POP"}
    /\ \E registers \in RegisterLists :
            ExecuteStack(Inst("PUSH", AL, FALSE, RegList(registers), Nothing, Nothing, Nothing),
                         registers, regs)

\* MOV Rr, #0 on a register of the list, between the PUSH and the POP
OverwriteRegister ==
    /\ call.fn = "PUSH"
    /\ \E r \in ListedRegisters(call.registers) \ {PC_INDEX} :
            ExecuteStack(Inst("MOV", AL, FALSE, Reg(r), Imm32(Zero), Nothing, Nothing),
                         call.registers, written)

PopRegisters ==
    /\ call.fn \in {"PUSH", "MOV"}
    /\ ExecuteStack(Inst("POP", AL, FALSE, RegList(call.registers), Nothing, Nothing, Nothing),
                    call.registers, written)

NextStack == PushRegisters \/ OverwriteRegister \/ PopRegisters

SpecStack == InitStack /\ [][NextStack]_vars

-----------------------------------------------------------------------------
(* SpecLanes: SADD8 and UADD8 R0, R1, R2 executed with chosen R1 and R2 *)

\* 0, 0x00000001, 0x0000007F, 0x000000FF, 0x01010101, 0x80808080, 0xFF00FF00,
\* 0x7F017F01
LaneValues == {Zero, One, U32(127), U32(255), <<257, 257>>, <<32896, 32896>>,
               <<65280, 65280>>, <<32513, 32513>>}

InitLanes ==
    /\ \E n \in LaneValues, mm \in LaneValues :
            regs = [r \in 0..15 |-> CASE r = 1 -> n [] r = 2 -> mm [] OTHER -> Zero]
    /\ cpsr = CPSRegister_default
    /\ data = <<>>
    /\ tx = <<>>
    /\ inst = NoInst
    /\ fetch_address = Zero
    /\ pc_write = "none"
    /\ last = NoInst
    /\ steps = 0
    /\ status = "harness"
    /\ overflow_checks \in BOOLEAN
    /\ call = NoCall
    /\ ret = NoCall
    /\ written = <<>>

\* machine.execute(SADD8 R0, R1, R2) and machine.execute(UADD8 R0, R1, R2)
AddLanes ==
    \E op \in {"SADD8", "UADD8"} :
        ExecuteOn(Inst(op, AL, FALSE, Reg(0), Reg(1), Reg(2), Nothing), QuietHost)

NextLanes == AddLanes

SpecLanes == InitLanes /\ [][NextLanes]_vars

-----------------------------------------------------------------------------
(* SpecLoad: LDRB, LDRH, LDRSB, LDRSH R3,[R1] after STR R2,[R1] *)

NarrowLoads == {"LDRB", "LDRH", "LDRSB", "LDRSH"}
\* in the local array, its last byte, the first of the remote region, and the
\* last four bytes of the memory
LoadAddresses == {U32(256), U32(INTERNAL_SIZE - 1), U32(INTERNAL_SIZE), U32(size - 4),
                  U32(size - 2), U32(size - 1), U32(size)}

InitLoad ==
    /\ \E a \in LoadAddresses, w \in {<<57005, 48879>>, <<258, 772>>} :
            regs = [r \in 0..15 |-> CASE r = 1 -> a [] r = 2 -> w [] OTHER -> Zero]
    /\ cpsr = CPSRegister_default
    /\ data = <<>>
    /\ tx = <<>>
    /\ inst = NoInst
    /\ fetch_address = Zero
    /\ pc_write = "none"
    /\ last = NoInst
    /\ steps = 0
    /\ status = "harness"
    /\ overflow_checks \in BOOLEAN
    /\ call = NoCall
    /\ ret = NoCall
    /\ written = <<>>

\* machine.execute(LDRB R3,[R1]) and the same for LDRH, LDRSB, LDRSH
LoadNarrow ==
    \E op \in NarrowLoads, h \in Hosts :
        /\ (\A i \in 0..3 : ~IsRemote(AddU32(regs[1], U32(i)).val)) => h = QuietHost
        /\ ExecuteOn(Inst(op, AL, FALSE, Reg(3), RegDeref(1), Nothing, Nothing), h)

NextLoad == StoreWord \/ LoadNarrow

SpecLoad == InitLoad /\ [][NextLoad]_vars

-----------------------------------------------------------------------------
(* SpecReader: next, next_n, mark and offset called on the fetch cursor *)

MaxFetch == 3
\* the start and the end of the local array, the last bytes of the memory, the
\* first address past it, and the last addresses of the address space
CursorStarts == {Zero, U32(INTERNAL_SIZE - 1), U32(size - 4), U32(size - 3), U32(size - 1),
                 U32(size), <<65535, 65532>>, Ones}

InitReader ==
    /\ \E pc \in CursorStarts :
            regs = [r \in 0..15 |-> IF r = PC_INDEX THEN pc ELSE Zero]
    /\ cpsr = CPSRegister_default
    /\ data = <<>>
    /\ tx = <<>>
    /\ inst = NoInst
    /\ fetch_address = Zero
    /\ pc_write = "none"
    /\ last = NoInst
    /\ steps = 0
    /\ status = "harness"
    /\ overflow_checks \in BOOLEAN
    /\ call = NoCall
    /\ ret = NoCall
    /\ written = <<>>

\* what a call of the Reader leaves: an Err is returned to the caller
Returned(fn, n, h, m) ==
    /\ call' = [host |-> h, fn |-> fn, len |-> n]
    /\ ret' = [kind |-> m.kind]
    /\ regs' = m.regs
    /\ tx' = m.tx
    /\ steps' = steps + 1
    /\ status' = IF m.kind = "Panic" THEN "panicked" ELSE "harness"
    /\ UNCHANGED <<cpsr, data, inst, fetch_address, pc_write, last, overflow_checks,
                   written>>

\* machine.next()
CallNext ==
    /\ status = "harness"
    /\ steps < MaxFetch
    /\ \E h \in Hosts :
        /\ ~IsRemote(regs[PC_INDEX]) => h = QuietHost
        /\ Returned("next", 1, h, next_bytes(Machine(regs, cpsr, data), 1, h))

\* machine.next_n(&mut buf) with a buffer of 2 or 4 bytes
CallNextN ==
    /\ status = "harness"
    /\ steps < MaxFetch
    /\ \E n \in {2, 4}, h \in Hosts :
        /\ (\A i \in 0..3 : ~IsRemote(AddU32(regs[PC_INDEX], U32(i)).val)) => h = QuietHost
        /\ Returned("next_n", n, h, next_n(Machine(regs, cpsr, data), n, h))

\* machine.mark()
CallMark ==
    /\ status = "harness"
    /\ fetch_address' = regs[PC_INDEX]
    /\ call' = [fn |-> "mark"]
    /\ ret' = [kind |-> "Ok"]
    /\ UNCHANGED <<regs, cpsr, data, tx, status, inst, pc_write, last, steps,
                   overflow_checks, written>>

\* machine.offset()
CallOffset ==
    /\ status = "harness"
    /\ call' = [fn |-> "offset"]
    /\ ret' = Reader_offset(regs[PC_INDEX], fetch_address)
    /\ UNCHANGED <<regs, cpsr, data, tx, status, inst, fetch_address, pc_write, last,
                   steps, overflow_checks, written>>

NextReader == CallNext \/ CallNextN \/ CallMark \/ CallOffset

SpecReader == InitReader /\ [][NextReader]_vars

-----------------------------------------------------------------------------
(* SpecMsr: MSR CPSR_<fields>, Rn executed from the state after reset *)

FieldMasks == 0..15
\* user mode with every other bit clear; every bit set; E, GE and the flags
\* set over system mode; the value after reset
StatusValues == {U32(16), Ones, <<63503, 543>>, U32(467)}

InitMsr ==
    /\ \E v \in StatusValues :
            regs = [r \in 0..15 |-> IF r = 1 THEN v ELSE Zero]
    /\ cpsr = CPSRegister_default
    /\ data = <<>>
    /\ tx = <<>>
    /\ inst = NoInst
    /\ fetch_address = Zero
    /\ pc_write = "none"
    /\ last = NoInst
    /\ steps = 0
    /\ status = "harness"
    /\ overflow_checks \in BOOLEAN
    /\ call = NoCall
    /\ ret = NoCall
    /\ written = <<>>

\* machine.execute(MSR CPSR_<fields>, R1)
WriteStatus == \E mask \in FieldMasks : ExecuteOn(MSR_CPSR(mask), QuietHost)

\* machine.execute(MOV R1, #value): another source value for the next MSR
LoadStatusValue ==
    \E v \in StatusValues :
        ExecuteOn(Inst("MOV", AL, FALSE, Reg(1), Imm32(v), Nothing, Nothing), QuietHost)

NextMsr == WriteStatus \/ LoadStatusValue

SpecMsr == InitMsr /\ [][NextMsr]_vars

-----------------------------------------------------------------------------
(* Spec: Machine::run, the loop of decode and execute *)

MaxSteps == 2
MaxThumb == 1

\* What InstDecoder::decode may return. The decoder is a library; the image it
\* decodes is not represented, so each fetch draws the instruction record from
\* a menu of records the decoder produces for some image.
Fetched(len, i) == [inst |-> i, len |-> len]
DecodeError == Inst("DecodeError", AL, FALSE, Nothing, Nothing, Nothing, Nothing)

MenuArm ==
    {Fetched(4, Inst(op, AL, s, Reg(1), Imm32(v), Nothing, Nothing)) :
        op \in {"MOV", "MVN"}, s \in BOOLEAN, v \in {Zero, One, IntMin}}
    \cup {Fetched(4, Inst(op, AL, s, Reg(0), Reg(1), Imm32(One), Nothing)) :
        op \in DataProcessing \ {"MOV", "MVN"}, s \in BOOLEAN}
    \cup {Fetched(4, Inst(op, AL, TRUE, Reg(0), Reg(1), Reg(1), Nothing)) :
        op \in {"ADD", "ADC", "SUB"}}
    \cup {Fetched(4, Inst("ADD", c, TRUE, Reg(0), Reg(1), Imm32(One), Nothing)) :
        c \in {EQ, NE}}
    \cup {Fetched(4, Inst("SVC", c, FALSE, Imm32(Zero), Nothing, Nothing, Nothing)) :
        c \in {EQ, AL}}
    \cup {Fetched(4, Inst(op, AL, FALSE, Reg(0), Reg(1), Nothing, Nothing)) :
        op \in {"CMN", "CMP", "TEQ", "TST"}}
    \cup {Fetched(4, Inst(op, AL, FALSE, Reg(0), Reg(1), Reg(1), Nothing)) :
        op \in {"SADD16", "UADD16"}}
    \cup {Fetched(4, Inst("CLZ", AL, FALSE, Reg(d), Reg(1), Nothing, Nothing)) :
        d \in {0, PC_INDEX}}
    \cup {Fetched(4, Inst("B", AL, FALSE, BranchOffset(v), Nothing, Nothing, Nothing)) :
        v \in {U32(3), Ones}}
    \cup {Fetched(4, Inst("ADD", AL, FALSE, Reg(PC_INDEX), Reg(PC_INDEX), Imm32(One),
                          Nothing)),
          Fetched(4, Inst("SUB", AL, TRUE, Reg(PC_INDEX), Reg(1), Imm32(One), Nothing)),
          Fetched(4, Inst("BX", AL, FALSE, Reg(1), Nothing, Nothing, Nothing)),
          Fetched(4, Inst("BXJ", AL, FALSE, Reg(1), Nothing, Nothing, Nothing)),
          Fetched(4, Inst("BLX", AL, FALSE, Reg(1), Nothing, Nothing, Nothing)),
          Fetched(4, Inst("BLX", AL, FALSE, BranchThumbOffset(U32(4)), Nothing, Nothing,
                          Nothing)),
          Fetched(4, Inst("BL", AL, FALSE, BranchOffset(U32(3)), Nothing, Nothing,
                          Nothing)),
          Fetched(4, MSR_CPSR(15)),
          Fetched(4, Inst("NOP", AL, FALSE, Nothing, Nothing, Nothing, Nothing)),
          Fetched(4, Inst("BKPT", AL, FALSE, Imm32(Zero), Nothing, Nothing, Nothing)),
          Fetched(4, DecodeError)}

\* The decoder is told only whether the machine is in an IT block
\* (set_in_it_block), not the condition of the block: the 16-bit MOV sets the
\* flags outside an IT block only, and its condition is AL.
MenuThumb(in_it) ==
    {Fetched(2, Inst("IT", AL, FALSE, Imm32(U32(EQ)), Imm32(U32(mask)), Nothing,
                     Nothing)) : mask \in {8, 4}}
    \cup {Fetched(2, Inst("MOV", AL, ~in_it, Reg(0), Imm32(One), Nothing, Nothing)),
          Fetched(4, Inst("MVN", AL, FALSE, Reg(1), Imm32(Zero), Nothing, Nothing)),
          Fetched(2, Inst("CBZ", AL, FALSE, Reg(0), BranchThumbOffset(U32(3)),
                          Nothing, Nothing)),
          Fetched(2, Inst("CBNZ", AL, FALSE, Reg(0), BranchThumbOffset(U32(3)),
                          Nothing, Nothing)),
          Fetched(2, Inst("NOP", AL, FALSE, Nothing, Nothing, Nothing, Nothing)),
          Fetched(2, Inst("ENTERX", AL, FALSE, Nothing, Nothing, Nothing, Nothing)),
          Fetched(4, Inst("BL", AL, FALSE, BranchThumbOffset(U32(4)), Nothing, Nothing,
                          Nothing)),
          Fetched(2, DecodeError)}

Menu(c) ==
    IF current_instr_set(c) = "Thumb" THEN MenuThumb(in_it_block(c)) ELSE MenuArm

Init ==
    /\ MachineDefault
    /\ status = "fetch"
    /\ overflow_checks \in BOOLEAN
    /\ call = NoCall
    /\ ret = NoCall
    /\ written = <<>>

\* an unwrap that goes on whatever execute returned
after_execute_resume(kind) == "fetch"

\* self.execute(instruction).unwrap(): an Err and a panic inside execute both
\* end in the panic handler, which loops for ever; a read that waits for the
\* host never returns
after_execute(kind) ==
    CASE kind = "Ok" -> "fetch"
      [] kind = "Blocked" -> "blocked"
      [] OTHER -> "panicked"

\* what decode returned: an exhausted or failed read and an encoding that
\* matches nothing are all Err(_)
decoded(kind, i) ==
    CASE kind = "Blocked" -> "Blocked"
      [] kind # "Ok" \/ i = DecodeError -> "DecodeError"
      [] OTHER -> "Ok"

\* decoder.decode(self): the decoder pulls the bytes of one instruction through
\* the Reader, which advances the PC; an Err is todo!()
Decode ==
    \E f \in Menu(cpsr), h \in Hosts :
        LET m == next_n(Machine(regs, cpsr, data), f.len, h)
        IN  /\ status = "fetch"
            /\ steps < MaxSteps
                \/ (current_instr_set(cpsr) = "Thumb" /\ steps < MaxSteps + MaxThumb)
            /\ ~IsRemote(regs[PC_INDEX]) => h = QuietHost
            /\ regs' = m.regs
            /\ tx' = m.tx
            /\ fetch_address' = regs[PC_INDEX]
            /\ inst' = f.inst
            /\ steps' = steps + 1
            /\ ret' = [kind |-> decoded(m.kind, f.inst), fn |-> "decode"]
            /\ status' = CASE decoded(m.kind, f.inst) = "Blocked" -> "blocked"
                           [] decoded(m.kind, f.inst) = "DecodeError" -> "panicked"
                           [] OTHER -> "execute"
            /\ UNCHANGED <<cpsr, data, pc_write, last, overflow_checks, call,
                           written>>

\* self.execute(instruction).unwrap()
Execute ==
    /\ status = "execute"
    /\ \E m \in {execute(Machine(regs, cpsr, data), inst)} :
        /\ regs' = m.regs
        /\ cpsr' = m.cpsr
        /\ data' = m.data
        /\ tx' = m.tx
        /\ pc_write' = m.pcw
        /\ last' = inst
        /\ ret' = [kind |-> m.kind, fn |-> "execute"]
        /\ status' = after_execute(m.kind)
        /\ UNCHANGED <<inst, fetch_address, steps, overflow_checks, call, written>>

Next == Decode \/ Execute

Spec == Init /\ [][Next]_vars

-----------------------------------------------------------------------------
(* SpecLoop: Machine::run on the image ADD R0,R0,#1 ; B (imm24 = -4) *)

MaxLoopSteps == 60

\* 01 00 80 E2  FC FF FF EA at address 0, the rest of the array zero
LoopImage == [a \in 0..7 |-> <<1, 0, 128, 226, 252, 255, 255, 234>>[a + 1]]

\* The payload that InstDecoder gives Operand::BranchOffset for the field
\* imm24 = 0xFFFFFC (-4). The decoder is a library: the candidates are the
\* field itself, the field plus one (which the "value - 1" of Machine::read
\* undoes), the field plus two, and the only payload with which B lands on
\* address 0 (-1).
BranchPayloads == {<<W16 - 1, W16 - 4>>, <<W16 - 1, W16 - 3>>, <<W16 - 1, W16 - 2>>, Ones}

ImageWord(d, a) == [i \in 1..4 |-> Byte(d, a + i - 1)]

\* the ARM decoding of the three words the image holds
decode_arm(word, branch) ==
    CASE word = <<1, 0, 128, 226>> ->
            Inst("ADD", AL, FALSE, Reg(0), Reg(0), Imm32(One), Nothing)
      [] word = <<252, 255, 255, 234>> ->
            Inst("B", AL, FALSE, BranchOffset(branch), Nothing, Nothing, Nothing)
      [] word = <<0, 0, 0, 0>> ->
            Inst("AND", EQ, FALSE, Reg(0), Reg(0), Reg(0), Nothing)
      [] OTHER -> DecodeError

InitLoop ==
    /\ regs = [r \in 0..15 |-> Zero]
    /\ cpsr = CPSRegister_default
    /\ data = LoopImage
    /\ tx = <<>>
    /\ inst = NoInst
    /\ fetch_address = Zero
    /\ pc_write = "none"
    /\ last = NoInst
    /\ steps = 0
    /\ status = "fetch"
    /\ overflow_checks \in BOOLEAN
    /\ call \in {[fn |-> "InstDecoder", branch |-> v] : v \in BranchPayloads}
    /\ ret = NoCall
    /\ written = <<>>

\* decoder.decode(self) on the image
DecodeImage ==
    LET m == next_n(Machine(regs, cpsr, data), 4, QuietHost)
        i == IF m.kind = "Ok"
             THEN decode_arm(ImageWord(data, ToNat(regs[PC_INDEX])), call.branch)
             ELSE DecodeError
    IN  /\ status = "fetch"
        /\ steps < MaxLoopSteps
        /\ regs' = m.regs
        /\ tx' = m.tx
        /\ fetch_address' = regs[PC_INDEX]
        /\ inst' = i
        /\ steps' = steps + 1
        /\ ret' = [kind |-> decoded(m.kind, i), fn |-> "decode"]
        /\ status' = CASE decoded(m.kind, i) = "Blocked" -> "blocked"
                       [] decoded(m.kind, i) = "DecodeError" -> "panicked"
                       [] OTHER -> "execute"
        /\ UNCHANGED <<cpsr, data, pc_write, last, overflow_checks, call, written>>

NextLoop == DecodeImage \/ Execute

SpecLoop == InitLoop /\ [][NextLoop]_vars

-----------------------------------------------------------------------------
(* Properties *)

\* the four bytes of a u32, least significant first
LittleEndianU32(x) == [i \in 1..4 |-> IF i <= 2 THEN (Lo(x) \div (256 ^ (i - 1))) % 256
                                       ELSE (Hi(x) \div (256 ^ (i - 3))) % 256]

\* the four bytes of a number below 2^31, least significant first
LittleEndian(n) == [i \in 1..4 |-> (n \div (256 ^ (i - 1))) % 256]

\* C3: add_with_carry(x, y, c), when it returns, returns (x + y + c) mod 2^32,
\* carry_out iff the unsigned sum x + y + c is at least 2^32, and overflow iff
\* the signed sum int32(x) + int32(y) + c lies outside [-2^31, 2^31).
C3_AddWithCarryIsTextbook ==
    (call.fn = "add_with_carry" /\ ~ret.panic) =>
        LET lo == Lo(call.x) + Lo(call.y) + (IF call.carry_in THEN 1 ELSE 0)
            uhi == Hi(call.x) + Hi(call.y) + lo \div W16
            shi == SHi(call.x) + SHi(call.y) + lo \div W16
        IN  /\ ret.result = <<uhi % W16, lo % W16>>
            /\ ret.carry_out = (uhi >= W16)
            /\ ret.overflow = (shi < -W15 \/ shi >= W15)

\* the step of the run loop that executes the decoded instruction
Executing == status = "execute"
Completed == status = "execute" /\ status' = "fetch"
Before == Machine(regs, cpsr, data)

\* C1: an instruction that is not BKPT, CBZ or CBNZ and whose condition fails
\* under the current flags is executed with success and leaves the sixteen
\* registers (the PC as the fetch left it), the CPSR and the memory, local and
\* remote, as they were.
C1_FailedConditionFrame ==
    [][(Executing /\ inst.opcode \notin {"BKPT", "CBZ", "CBNZ"}
            /\ ~condition_passed(cpsr, inst.condition)) =>
        /\ status' = "fetch"
        /\ regs' = regs
        /\ cpsr' = cpsr
        /\ data' = data
        /\ tx' = <<>>
      ]_vars

C1_Witness ==
    /\ status = "fetch"
    /\ last.opcode = "SVC" /\ last.condition = EQ
    /\ ~cpsr.z
    /\ regs[1] = IntMin

\* C2, as stated: an instruction with S = 0 that is not CMN, CMP, TST, TEQ or
\* a saturating operation leaves N, Z, C, V, Q and GE as they were.
Saturating == {"QADD", "QADD16", "QADD8", "QASX", "QDADD", "QDSUB", "QSAX", "QSUB",
               "QSUB16", "QSUB8", "SSAT", "SSAT16", "USAT", "USAT16", "UQADD16",
               "UQADD8", "UQASX", "UQSAX", "UQSUB16", "UQSUB8"}
C2_S0LeavesAPSR ==
    [][(Executing /\ ~inst.s
            /\ inst.opcode \notin {"CMN", "CMP", "TST", "TEQ"} \cup Saturating) =>
        apsr(cpsr') = apsr(cpsr)
      ]_vars

\* C2, amended: an instruction with S = 0 that is not CMN, CMP, TST, TEQ, a
\* saturating operation, MSR, or one of the operations that write GE or Q
\* whatever S is (the parallel additions and subtractions, the accumulating
\* signed multiplications) leaves N, Z, C, V, Q and GE as they were.
WritesGEOrQ == {"SADD16", "UADD16", "SADD8", "UADD8", "SASX", "UASX", "SSAX", "USAX",
                "SSUB16", "USUB16", "SSUB8", "USUB8", "SMLA", "SMLAD", "SMLAW",
                "SMLSD", "SMUAD", "MSR"}
C2_S0LeavesAPSRUnlessGE ==
    [][(Executing /\ ~inst.s
            /\ inst.opcode \notin {"CMN", "CMP", "TST", "TEQ"} \cup Saturating
                                    \cup WritesGEOrQ) =>
        apsr(cpsr') = apsr(cpsr)
      ]_vars

C2_Witness ==
    /\ status = "fetch"
    /\ last.opcode = "ADD" /\ ~last.s
    /\ regs[0] # Zero
    /\ cpsr.n

\* C4: after a data-processing instruction with S = 1, a passing condition and
\* a destination other than R15, N is bit 31 of the result in Rd and Z says
\* that the result is zero; for ADD the result is the sum mod 2^32, C its
\* unsigned carry and V its signed overflow (ADDS with 0xFFFFFFFF and 1 gives
\* 0, C = 1, Z = 1, N = 0, V = 0; with 0x7FFFFFFF and 1 gives 0x80000000,
\* N = 1, Z = 0, C = 0, V = 1).
C4_FlagsAfterS1 ==
    [][(Completed /\ inst.opcode \in DataProcessing /\ inst.s
            /\ condition_passed(cpsr, inst.condition)
            /\ inst.operands[1].reg # PC_INDEX) =>
        LET result == regs'[inst.operands[1].reg]
            n == read(Before, inst.operands[2])
            mm == read(Before, inst.operands[3])
        IN  /\ cpsr'.n = (Bit(result, 31) = 1)
            /\ cpsr'.z = (result = Zero)
            /\ inst.opcode = "ADD" =>
                    /\ result = AddU32(n, mm).val
                    /\ cpsr'.c = AddU32(n, mm).ovf
                    /\ cpsr'.v = AddI32(n, mm).ovf
      ]_vars

\* the condition of the current instruction of an IT block, ITSTATE[7:4]
ITCondition(c) == it(c) \div 16

\* C5: inside an IT block the condition that decides whether a Thumb
\* instruction executes is the one derived from ITSTATE: when that condition
\* fails the instruction changes no register, and after IT EQ the MOV of 1 to
\* R0 writes R0 = 1 when Z = 1 and leaves R0 as it was when Z = 0.
C5_ITConditionGoverns ==
    [][(Completed /\ current_instr_set(cpsr) = "Thumb" /\ in_it_block(cpsr)
            /\ inst.opcode \notin {"IT", "BKPT", "CBZ", "CBNZ"}) =>
        /\ ~condition_passed(cpsr, ITCondition(cpsr)) =>
                \A r \in 0..14 : regs'[r] = regs[r]
        /\ (inst.opcode = "MOV" /\ ITCondition(cpsr) = EQ) =>
                regs'[0] = IF cpsr.z THEN One ELSE regs[0]
      ]_vars

\* the number of instructions left in the IT block, from ITSTATE[3:0]
Remaining(v) ==
    CASE v % 16 = 0 -> 0
      [] v % 16 = 8 -> 1
      [] v % 8 = 4 -> 2
      [] v % 4 = 2 -> 3
      [] OTHER -> 4

\* C6: an IT instruction whose mask covers k instructions puts the machine in
\* InIT(k); each instruction completed in InIT(n) moves it to InIT(n - 1), so
\* that after k instructions in_it_block() is false.
C6_ITDecay ==
    [][Completed =>
        IF inst.opcode = "IT"
        THEN Remaining(it(cpsr')) = Remaining(Lo(inst.operands[2].value))
        ELSE in_it_block(cpsr) =>
                /\ Remaining(it(cpsr')) = Remaining(it(cpsr)) - 1
                /\ Remaining(it(cpsr)) = 1 => ~in_it_block(cpsr')
      ]_vars

\* C7: when the executor runs an instruction fetched from address A, R15
\* reads A + 8 in ARM state and A + 4 in Thumb state.
C7_PCReadsAhead ==
    Executing =>
        regs[PC_INDEX] =
            AddU32(fetch_address,
                   IF current_instr_set(cpsr) = "Arm" THEN U32(8) ELSE U32(4)).val

\* C8: every change the executor makes to R15 is made by branch_write_pc,
\* bw_write_pc, alu_write_pc or load_write_pc (all of which end in branch_to);
\* none is a plain assignment of regs[15].
C8_PCWriteDiscipline ==
    [][(Executing /\ regs'[PC_INDEX] # regs[PC_INDEX]) => pc_write' = "branch_to"]_vars

\* the four addresses of the word at a lie in the memory, local or remote
WordInMemory(a) == Lt32(a, U32(size - 3))
WordIsLocal(a) == Lt32(a, U32(INTERNAL_SIZE - 3))

\* C11: a word write of w at any byte address a of the memory, whatever its
\* alignment, succeeds and stores byte i of w, least significant first, at
\* a + i; a following word read at a returns w. So STR R2,[R1] leaves the four
\* bytes of R2 at R1..R1+3 and R1 as it was, and LDR R3,[R1] then ends with
\* R3 = R2.
C11_WordRoundTrip ==
    [][LET a == regs[1] IN
       /\ (call'.fn = "STR" /\ WordInMemory(a)) =>
            /\ ret'.kind = "Ok"
            /\ regs' = regs
            /\ IsLocal(a) =>
                    \A i \in 0..3 : Byte(data', ToNat(a) + i) = to_le_bytes(regs[2])[i + 1]
       /\ (call'.fn = "LDR" /\ a \in DOMAIN written /\ call'.host.kind = "byte") =>
            /\ ret'.kind = "Ok"
            /\ regs'[3] = regs[2]
            /\ regs'[1] = a
      ]_vars

\* C11 within the local array: the same, for a word that lies below L_local.
C11_LocalWordRoundTrip ==
    [][LET a == regs[1] IN
       /\ (call'.fn = "STR" /\ WordIsLocal(a)) =>
            /\ ret'.kind = "Ok"
            /\ regs' = regs
            /\ \A i \in 0..3 : Byte(data', ToNat(a) + i) = LittleEndianU32(regs[2])[i + 1]
            /\ tx' = <<>>
       /\ (call'.fn = "LDR" /\ a \in DOMAIN written /\ WordIsLocal(a)) =>
            /\ ret'.kind = "Ok"
            /\ regs'[3] = regs[2]
            /\ regs'[1] = a
            /\ data' = data
      ]_vars

C11_LocalWitness ==
    /\ call.fn = "LDR"
    /\ regs[1] = U32(256)
    /\ regs[3] = <<57005, 48879>>
    /\ Byte(data, 256) = 239 /\ Byte(data, 257) = 190
    /\ Byte(data, 258) = 173 /\ Byte(data, 259) = 222

\* C12: a byte write at a remote address succeeds, without stopping the
\* interpreter, by sending after the handshake one WRITE_MEMORY command: the
\* head 2 and a frame whose payload is the little-endian offset a - L_local
\* followed by the byte.
C12_RemoteWrite ==
    [][LET a == call'.address IN
       (call'.fn = "write_memory" /\ IsRemote(a)) =>
            /\ ret'.kind = "Ok"
            /\ status' # "panicked"
            /\ \E k \in 1..Len(tx') :
                    /\ \A i \in 1..(k - 1) : tx'[i] = 170
                    /\ tx'[k] = 2
                    /\ receive_data(SubSeq(tx', k + 1, Len(tx'))).data
                            = LittleEndian(ToNat(a) - 102400) \o <<call'.bit>>
      ]_vars

\* the payload of a command: the offset, least significant byte first, and
\* for a write the byte
Payload(c) ==
    IF c.cmd = "ReadMemory" THEN LittleEndianU32(c.address)
    ELSE LittleEndianU32(c.address) \o <<c.value>>

\* byte i of a frame is escaped: the byte before it is an escape that is not
\* itself escaped
RECURSIVE EscapedAt(_, _)
EscapedAt(body, i) == i > 1 /\ body[i - 1] = 92 /\ ~EscapedAt(body, i - 1)

\* the bytes sent after the header, when the host has answered the handshake
\* at its k-th byte
FrameBody(k) == SubSeq(tx, k + 2, Len(tx))

\* C13: framing round-trips. In the bytes Command::send emits after the header
\* the only 0xFF that is not escaped is the last byte; a 0x5C escapes exactly
\* the payload bytes 0xFF and 0x5C; and receive_data, fed those bytes, returns
\* the payload and consumes them all.
C13_FramingRoundTrip ==
    (call.fn = "send" /\ ~ret.blocked) =>
        LET body == FrameBody(Len(call.rx))
            n == Len(body)
            r == receive_data(body)
        IN  /\ n >= 1 /\ body[n] = 255 /\ ~EscapedAt(body, n)
            /\ \A i \in 1..(n - 1) :
                    /\ body[i] = 255 => EscapedAt(body, i)
                    /\ EscapedAt(body, i) => body[i] \in {92, 255}
                    /\ (body[i] = 92 /\ ~EscapedAt(body, i)) => body[i + 1] \in {92, 255}
            /\ r.data = Payload(call.command)
            /\ r.rx = <<>> /\ ~r.blocked

C13_Witness ==
    /\ call.fn = "send" /\ ~ret.blocked
    /\ call.command = WriteMemory(<<23551, 65372>>, 255)
    /\ FrameBody(Len(call.rx)) = <<92, 92, 92, 255, 92, 255, 91, 92, 255, 255>>

\* C14: nothing of a command is written before the handshake is done. The
\* sender writes 0xAA, flushes and reads, and does so again after each byte
\* read that is not 0x55; only when 0x55 has been read does it write the
\* header, the escaped payload and the terminator, in that order, and it
\* reads nothing more. While 0x55 has not come it writes nothing but 0xAA.
C14_HandshakeFirst ==
    call.fn = "send" =>
        LET log == ret.log
            acks == {i \in 1..Len(log) : log[i] = <<"read", 85>>}
            done == IF acks = {} THEN Len(log)
                    ELSE CHOOSE i \in acks : \A j \in acks : i <= j
            frame == [i \in 1..(Len(log) - done - 1) |-> log[done + i][2]]
        IN  /\ ret.blocked = (acks = {})
            /\ \A i \in 1..done :
                    CASE i % 3 = 1 -> log[i] = <<"write", 170>>
                      [] i % 3 = 2 -> log[i] = <<"flush", 0>>
                      [] OTHER -> log[i][1] = "read"
            /\ acks # {} =>
                    /\ done % 3 = 0
                    /\ Len(log) >= done + 3
                    /\ \A i \in (done + 1)..(Len(log) - 1) : log[i][1] = "write"
                    /\ log[Len(log)] = <<"flush", 0>>
                    /\ frame[1] = (IF call.command.cmd = "ReadMemory" THEN 1 ELSE 2)
                    /\ frame[Len(frame)] = 255
                    /\ receive_data(Tail(frame)).data = Payload(call.command)
                    /\ receive_data(Tail(frame)).rx = <<>>

C14_Witness ==
    /\ call.fn = "send" /\ ~ret.blocked
    /\ call.command = ReadMemory(U32(170))
    /\ Len(call.rx) = 2
    /\ tx = <<170, 170, 1, 170, 0, 0, 0, 255>>

\* C15: the handshake, the command frame and the reception of the whole
\* response of a remote read lie in one critical section: interrupts are
\* disabled from before the first 0xAA until the terminator of the response
\* has been read, so no byte of another user of the serial port comes on the
\* link between the two.
C15_ExchangeIsAtomic ==
    [][/\ (Len(tx') > Len(tx) /\ tx'[Len(tx')][1] = "other") => call.pc = "idle"
       /\ (Len(tx') > Len(tx) /\ tx'[Len(tx')][1] = "vm") => call.primask /\ call'.primask
      ]_vars

C15_Witness ==
    /\ call.pc = "idle"
    /\ Len(tx) >= 9
    /\ tx[1] = <<"vm", "write", 170>>
    /\ tx[Len(tx) - 1] = <<"vm", "read", 255>>
    /\ tx[Len(tx)] = <<"other", "write", 0>>
    /\ Cardinality(OthersOnLink) = 1

\* the run loop has met a fatal condition: decode returned an error, or
\* execute returned an error or ran an unsupported opcode
Fatal == ret.fn \in {"decode", "execute"} /\ ret.kind \notin {"Ok", "Blocked"}

\* C16: once the run loop has met a fatal condition, no instruction is
\* fetched or executed any more, the registers, the CPSR and the memory never
\* change again and nothing more is written to the serial link.
C16_FatalStops ==
    [][Fatal =>
        /\ status = "panicked" /\ status' = "panicked"
        /\ regs' = regs /\ cpsr' = cpsr /\ data' = data
        /\ steps' = steps /\ inst' = inst /\ last' = last
        /\ tx' = tx
      ]_vars

C16_Witness ==
    /\ Fatal
    /\ ret = [kind |-> "Panic", fn |-> "execute"]
    /\ last.opcode = "SVC"
    /\ steps = 2 /\ regs[1] = One

\* C17: executing an unsupported opcode whose condition passes makes execute
\* return an Unimplemented error value, which is not BusError, and leaves the
\* registers, the CPSR and the memory as they were.
C17_UnsupportedReturnsError ==
    [][(/\ Executing
        /\ inst.opcode \in Unimplemented
        /\ ~in_it_block(cpsr)
        /\ condition_passed(cpsr, inst.condition))
       => /\ ret' = [kind |-> "Unimplemented", fn |-> "execute"]
          /\ regs' = regs /\ cpsr' = cpsr /\ data' = data
      ]_vars

\* an unsupported opcode whose condition passes has been executed
C17_Witness ==
    /\ ret.fn = "execute"
    /\ last.opcode \in Unimplemented
    /\ last.condition = AL
    /\ status # "execute"

\* the predicate over N, Z, C, V that the ARM architecture gives to each
\* condition code (EQ, NE, CS, CC, MI, PL, VS, VC, HI, LS, GE, LT, GT, LE, AL
\* and the unconditional 0b1111)
ArmCondition(c, cond) ==
    CASE cond = 0 -> c.z
      [] cond = 1 -> ~c.z
      [] cond = 2 -> c.c
      [] cond = 3 -> ~c.c
      [] cond = 4 -> c.n
      [] cond = 5 -> ~c.n
      [] cond = 6 -> c.v
      [] cond = 7 -> ~c.v
      [] cond = 8 -> c.c /\ ~c.z
      [] cond = 9 -> ~c.c \/ c.z
      [] cond = 10 -> c.n = c.v
      [] cond = 11 -> c.n # c.v
      [] cond = 12 -> ~c.z /\ c.n = c.v
      [] cond = 13 -> c.z \/ c.n # c.v
      [] cond = 14 -> TRUE
      [] cond = 15 -> TRUE

\* C18: for each of the 16 condition codes and each of the 16 combinations of
\* N, Z, C, V, condition_passed is the predicate selected by bits 3..1 of the
\* code, negated when bit 0 is 1, except that 0b1110 and 0b1111 are both true.
C18_ConditionTable ==
    call.fn = "condition_passed" => ret.val = ArmCondition(cpsr, call.cond)

\* LS (0b1001) has been evaluated with C and Z both set: HI fails, so LS passes
C18_Witness ==
    /\ call.fn = "condition_passed" /\ call.cond = 9
    /\ cpsr.c /\ cpsr.z
    /\ ret.val

\* C19: from the initial state with ADD R0,R0,#1 ; B at address 0 the run loop
\* never stops, R0 equals the number of iterations made, the fetch address
\* alternates between 0 and 4 and the machine stays in ARM state.
C19_LoopForever ==
    /\ status \in {"fetch", "execute"}
    /\ current_instr_set(cpsr) = "Arm"
    /\ fetch_address \in {Zero, U32(4)}
    /\ status = "execute" => fetch_address = (IF steps % 2 = 1 THEN Zero ELSE U32(4))
    /\ status = "execute" => regs[0] = U32(steps \div 2)
    /\ status = "fetch" => regs[0] = U32((steps + 1) \div 2)

\* the loop has stopped at its first branch
C19_Witness ==
    /\ status = "panicked"
    /\ last.opcode = "B"
    /\ ret = [kind |-> "Panic", fn |-> "execute"]
    /\ steps = 2 /\ regs[0] = One

\* the 16-bit number whose bit i (0..15) is bit lo + i - n of v, or 0 when
\* that index is negative
RECURSIVE ShiftedHalf(_, _, _, _)
ShiftedHalf(v, n, lo, i) ==
    IF i = 16 THEN 0
    ELSE (IF lo + i >= n THEN Bit(v, lo + i - n) * Pow2(i) ELSE 0)
         + ShiftedHalf(v, n, lo, i + 1)

\* (v << n) mod 2^32, bit by bit
ShiftedLeft(v, n) == <<ShiftedHalf(v, n, 16, 0), ShiftedHalf(v, n, 0, 0)>>

\* C20: for every 32-bit v and every n in 0..31, LSL(v, n) is (v << n) mod
\* 2^32; the carry-out is bit 32 - n of v when n >= 1, and the carry that was
\* in effect before the shift when n = 0.
C20_LSL ==
    call.fn = "shift_c" =>
        /\ ret.result = ShiftedLeft(call.value, call.amount)
        /\ ret.carry = IF call.amount = 0 THEN call.carry_in
                       ELSE Bit(call.value, 32 - call.amount) = 1

\* a shift by 0 has been made with the carry set
C20_Witness ==
    /\ call.fn = "shift_c" /\ call.amount = 0 /\ call.carry_in
    /\ ret.result = call.value

\* address & !1
ClearBit0(a) == <<Hi(a), Lo(a) - (Lo(a) % 2)>>

\* C21: bw_write_pc(addr) from ARM or Thumb state selects Thumb and sets the
\* PC to addr & ~1 when bit 0 of addr is 1, selects ARM and sets the PC to addr
\* when bits 1 and 0 are 0; a call that changes the PC leaves it halfword-
\* aligned in Thumb state and word-aligned in ARM state, and nothing but the
\* J and T bits of the CPSR and R15 changes.
C21_BwWritePc ==
    [][(call'.fn = "bw_write_pc" /\ current_instr_set(cpsr) \in {"Arm", "Thumb"}) =>
        LET a == call'.address
        IN  /\ ret'.kind = "Ok"
            /\ Lo(a) % 2 = 1 =>
                    current_instr_set(cpsr') = "Thumb" /\ regs'[PC_INDEX] = ClearBit0(a)
            /\ Lo(a) % 4 = 0 =>
                    current_instr_set(cpsr') = "Arm" /\ regs'[PC_INDEX] = a
            /\ regs'[PC_INDEX] # regs[PC_INDEX] =>
                    /\ current_instr_set(cpsr') = "Thumb" => Lo(regs'[PC_INDEX]) % 2 = 0
                    /\ current_instr_set(cpsr') = "Arm" => Lo(regs'[PC_INDEX]) % 4 = 0
            /\ \A r \in 0..14 : regs'[r] = regs[r]
            /\ [cpsr' EXCEPT !.j = cpsr.j, !.t = cpsr.t] = cpsr
            /\ data' = data /\ tx' = tx
      ]_vars

\* bw_write_pc(8) has left the machine in ARM state at address 8
C21_Witness ==
    /\ call = [address |-> U32(8), fn |-> "bw_write_pc"]
    /\ current_instr_set(cpsr) = "Arm"
    /\ regs[PC_INDEX] = U32(8)
    /\ pc_write = "branch_to"

\* C22: a data-processing instruction whose destination is R15 delivers its
\* result through alu_write_pc and leaves N, Z, C and V as they were, whatever
\* its S bit.
C22_PCDestinationKeepsFlags ==
    [][(/\ Executing
        /\ inst.opcode \in DataProcessing
        /\ inst.operands[1] = Reg(PC_INDEX)
        /\ ~in_it_block(cpsr)
        /\ condition_passed(cpsr, inst.condition)
        /\ ret'.kind = "Ok")
       => /\ pc_write' \in {"branch_to", "none"}
          /\ cpsr'.n = cpsr.n /\ cpsr'.z = cpsr.z
          /\ cpsr'.c = cpsr.c /\ cpsr'.v = cpsr.v
      ]_vars

\* a flag-setting data-processing instruction with destination R15 has run
C22_Witness ==
    /\ ret = [kind |-> "Ok", fn |-> "execute"]
    /\ last.opcode = "SUB" /\ last.s /\ last.operands[1] = Reg(PC_INDEX)
    /\ status = "fetch"

\* PL1 or higher: any mode but User (0b10000)
Privileged(c) == c.m # 16

\* C23: a StatusRegMask write to the CPSR with c = 1 writes the I bit and the
\* mode bits M[4:0] from the source exactly when the machine is privileged
\* (the supervisor mode after reset is), and never changes T, J or the IT
\* bits; with f = 1 it writes N, Z, C, V, Q, with s = 1 GE[3:0], with x = 1 the
\* E bit.
C23_StatusWrite ==
    [][(last'.opcode = "MSR" /\ status = "harness") =>
        LET mask == last'.operands[1].reg
            value == regs[1]
            f == (mask \div 8) % 2 = 1
            s == (mask \div 4) % 2 = 1
            x == (mask \div 2) % 2 = 1
            c == mask % 2 = 1
        IN  /\ cpsr'.i = IF c /\ Privileged(cpsr) THEN Bit(value, 7) = 1 ELSE cpsr.i
            /\ cpsr'.m = IF c /\ Privileged(cpsr) THEN Lo(value) % 32 ELSE cpsr.m
            /\ cpsr'.t = cpsr.t /\ cpsr'.j = cpsr.j
            /\ cpsr'.it_low = cpsr.it_low /\ cpsr'.it_high = cpsr.it_high
            /\ f => /\ cpsr'.n = (Bit(value, 31) = 1) /\ cpsr'.z = (Bit(value, 30) = 1)
                    /\ cpsr'.c = (Bit(value, 29) = 1) /\ cpsr'.v = (Bit(value, 28) = 1)
                    /\ cpsr'.q = (Bit(value, 27) = 1)
            /\ s => cpsr'.ge = Hi(value) % 16
            /\ x => cpsr'.e = (Bit(value, 9) = 1)
      ]_vars

\* MSR CPSR_c has run in supervisor mode with a source whose I bit is clear
C23_Witness ==
    /\ last.opcode = "MSR" /\ last.operands[1].reg = 1
    /\ regs[1] = U32(16)
    /\ ret.kind = "Ok"
    /\ cpsr.m = 19

\* the fields that do not need privilege are written as the claim says
C23_UnprivilegedFields ==
    [][(last'.opcode = "MSR" /\ status = "harness") =>
        LET mask == last'.operands[1].reg
            value == regs[1]
        IN  /\ cpsr'.t = cpsr.t /\ cpsr'.j = cpsr.j
            /\ cpsr'.it_low = cpsr.it_low /\ cpsr'.it_high = cpsr.it_high
            /\ (mask \div 8) % 2 = 1 =>
                    /\ cpsr'.n = (Bit(value, 31) = 1) /\ cpsr'.z = (Bit(value, 30) = 1)
                    /\ cpsr'.c = (Bit(value, 29) = 1) /\ cpsr'.v = (Bit(value, 28) = 1)
                    /\ cpsr'.q = (Bit(value, 27) = 1)
            /\ (mask \div 4) % 2 = 1 => cpsr'.ge = Hi(value) % 16
            /\ (mask \div 2) % 2 = 1 => cpsr'.e = (Bit(value, 9) = 1)
      ]_vars

\* C24: in every reachable state the instruction-set state is ARM or Thumb
\* (CPSR.J = 0); no executed instruction, write of the PC or write of the
\* status register leaves it, and BXJ and ENTERX are fatal.
C24_ArmOrThumb ==
    [][/\ ~cpsr.j /\ ~cpsr'.j
       /\ current_instr_set(cpsr') \in {"Arm", "Thumb"}
       /\ (/\ Executing
           /\ inst.opcode \in {"BXJ", "ENTERX"}
           /\ ~in_it_block(cpsr)
           /\ condition_passed(cpsr, inst.condition))
          => status' = "panicked" /\ cpsr' = cpsr
      ]_vars

\* MSR CPSR_fsxc has run with a source whose J bit is set
C24_Witness ==
    /\ last.opcode = "MSR" /\ last.operands[1].reg = 15
    /\ Bit(regs[1], 24) = 1
    /\ ret = [kind |-> "Ok", fn |-> "execute"]
    /\ cpsr.n /\ ~cpsr.j

\* the number of registers of the list below r
ListedBelow(registers, r) == Cardinality({q \in 0..(r - 1) : Listed(registers, q)})
\* the stack frame of k words below sp lies in the memory, or in the local array
FrameInMemory(sp, k) == Ge32(sp, U32(4 * k)) /\ ~Lt32(U32(size), sp)
FrameIsLocal(sp, k) == Ge32(sp, U32(4 * k)) /\ ~Lt32(U32(INTERNAL_SIZE), sp)

\* C25: a PUSH of a list of k registers without SP lowers SP by 4*k and leaves
\* the listed registers at ascending addresses in ascending register order
\* from the new SP; the POP of the same list (without SP and PC) that follows
\* ends with every listed register and SP as they were before the PUSH.
C25_PushPop ==
    [][LET l == call'.registers
           k == Cardinality(ListedRegisters(l))
           sp == regs[SP_INDEX]
       IN
       /\ (call'.fn = "PUSH" /\ ~Listed(l, SP_INDEX) /\ FrameInMemory(sp, k)) =>
            /\ ret'.kind = "Ok"
            /\ regs'[SP_INDEX] = SubU32(sp, U32(4 * k)).val
            /\ \A r \in 0..15 \ {SP_INDEX} : regs'[r] = regs[r]
            /\ FrameIsLocal(sp, k) =>
                \A r \in ListedRegisters(l) : \A i \in 0..3 :
                    Byte(data', ToNat(regs'[SP_INDEX]) + 4 * ListedBelow(l, r) + i)
                        = LittleEndianU32(regs[r])[i + 1]
       /\ (call'.fn = "POP" /\ ~Listed(l, SP_INDEX) /\ ~Listed(l, PC_INDEX)) =>
            /\ ret'.kind = "Ok"
            /\ \A r \in ListedRegisters(l) : regs'[r] = written[r]
            /\ regs'[SP_INDEX] = written[SP_INDEX]
      ]_vars

\* C25 within the local array: the same, for a frame that lies below L_local.
C25_LocalPushPop ==
    [][LET l == call'.registers
           k == Cardinality(ListedRegisters(l))
           sp == regs[SP_INDEX]
       IN
       /\ (call'.fn = "PUSH" /\ ~Listed(l, SP_INDEX) /\ FrameIsLocal(sp, k)) =>
            /\ ret'.kind = "Ok"
            /\ regs'[SP_INDEX] = SubU32(sp, U32(4 * k)).val
            /\ \A r \in 0..15 \ {SP_INDEX} : regs'[r] = regs[r]
            /\ \A r \in ListedRegisters(l) : \A i \in 0..3 :
                    Byte(data', ToNat(regs'[SP_INDEX]) + 4 * ListedBelow(l, r) + i)
                        = LittleEndianU32(regs[r])[i + 1]
       /\ (call'.fn = "POP" /\ ~Listed(l, SP_INDEX) /\ ~Listed(l, PC_INDEX)) =>
            /\ ret'.kind = "Ok"
            /\ \A r \in ListedRegisters(l) : regs'[r] = written[r]
            /\ regs'[SP_INDEX] = written[SP_INDEX]
      ]_vars

\* a PUSH {R0, R1, R4} at a stack pointer in the remote region has stopped the
\* interpreter
C25_Witness ==
    /\ call.fn = "PUSH"
    /\ call.registers = 19
    /\ written[SP_INDEX] = U32(INTERNAL_SIZE + 64)
    /\ ret.kind = "Panic"

\* {R0, R1, R4} pushed at 256, R1 overwritten with 0, and the list popped
C25_LocalWitness ==
    /\ call.fn = "POP"
    /\ call.registers = 19
    /\ ret.kind = "Ok"
    /\ regs[SP_INDEX] = U32(256)
    /\ regs[1] = <<2, 517>>
    /\ Byte(data, 248) = 5 /\ Byte(data, 249) = 2 /\ Byte(data, 250) = 2
    /\ Byte(data, 252) = 17 /\ Byte(data, 253) = 2 /\ Byte(data, 254) = 5

\* a byte as a two's complement number
SInt8(b) == IF b >= 128 THEN b - 256 ELSE b
\* bit k of the four GE bits
GEBit(c, k) == (c.ge \div Pow2(k)) % 2 = 1

\* C26: SADD8 and UADD8 complete for all operands; byte i of the result is
\* (n[i] + m[i]) mod 256, and GE[i] is set exactly when the signed sum of lane
\* i is >= 0 (SADD8) or the unsigned sum of lane i is >= 2^8 (UADD8).
C26_ByteLanes ==
    [][call'.fn \in {"SADD8", "UADD8"} =>
        LET n == LittleEndianU32(regs[1])
            mm == LittleEndianU32(regs[2])
        IN  /\ ret'.kind = "Ok"
            /\ \A k \in 1..4 :
                /\ LittleEndianU32(regs'[0])[k] = (n[k] + mm[k]) % 256
                /\ GEBit(cpsr', k - 1) =
                        IF call'.fn = "SADD8" THEN SInt8(n[k]) + SInt8(mm[k]) >= 0
                        ELSE n[k] + mm[k] >= 256
      ]_vars

\* C26 without the GE bits, where additions wrap: the instruction completes
\* and byte i of the result is (n[i] + m[i]) mod 256.
C26_LaneSums ==
    [][(call'.fn \in {"SADD8", "UADD8"} /\ ~overflow_checks) =>
        /\ ret'.kind = "Ok"
        /\ \A k \in 1..4 :
            LittleEndianU32(regs'[0])[k]
                = (LittleEndianU32(regs[1])[k] + LittleEndianU32(regs[2])[k]) % 256
      ]_vars

\* UADD8 of 0x000000FF and 0x00000001 has completed with every GE bit set
C26_Witness ==
    /\ call.fn = "UADD8"
    /\ regs[1] = U32(255) /\ regs[2] = One
    /\ ret.kind = "Ok"
    /\ regs[0] = Zero
    /\ cpsr.ge = 15

\* the amount by which the shift of a call of shift_c shifts
ShiftAmount(shift) ==
    IF shift.k = "RotateRightExtend" THEN 1
    ELSE IF shift.k \in RegisterShifts THEN Lo(regs[shift.reg_index])
    ELSE shift.amount

\* C27: LSL, LSR, ASR, ROR, RRX and add_with_carry return a value for every
\* 32-bit operand, every carry-in and every shift amount that reaches them
\* (immediates 0..31, the decoded 32 of LSR/ASR #0, register amounts 0..255):
\* none aborts on an arithmetic or shift overflow.
C27_PrimitivesAreTotal ==
    call.fn \in {"shift_c", "add_with_carry"} => ~ret.panic

\* C27 for the shifts and rotations by 1..31: they return, and the result is
\* made of the bits of the value moved by the amount.
C27_ShiftsBelow32 ==
    (call.fn = "shift_c" /\ ShiftAmount(call.shift) \in 1..31) =>
        LET v == call.value
            n == ShiftAmount(call.shift)
            k == call.shift.k
        IN  /\ ~ret.panic
            /\ \A i \in 0..31 :
                Bit(ret.result, i) =
                    CASE k \in {"LogicLeft", "RegLogicLeft"} ->
                            IF i >= n THEN Bit(v, i - n) ELSE 0
                      [] k \in {"LogicRight", "RegLogicRight"} ->
                            IF i + n <= 31 THEN Bit(v, i + n) ELSE 0
                      [] k \in {"ArithRight", "RegArithRight"} ->
                            IF i + n <= 31 THEN Bit(v, i + n) ELSE Bit(v, 31)
                      [] k \in {"RotateRight", "RegRotateRight"} -> Bit(v, (i + n) % 32)
                      [] k = "RotateRightExtend" ->
                            IF i = 31 THEN (IF call.carry_in THEN 1 ELSE 0) ELSE Bit(v, i + 1)

\* LSR #0, decoded as a shift right by 32, has aborted
C27_Witness ==
    /\ call.fn = "shift_c"
    /\ call.shift = LogicRight(32)
    /\ call.value = <<W15, 1>>
    /\ ret.panic

\* a rotation right by 1 of 0x80000001 has returned 0xC0000000
C27_RotateWitness ==
    /\ call.fn = "shift_c"
    /\ call.shift = RotateRight(1)
    /\ call.value = <<W15, 1>>
    /\ ret.result = <<49152, 0>>
    /\ ~ret.panic

\* the number of bytes a load reads by its opcode
LoadWidth(opcode) == IF opcode \in {"LDRB", "LDRSB"} THEN 1 ELSE 2
\* the byte at address a: of the local array, or the one the host holds
ByteAt(d, a, h) ==
    IF IsLocal(a) THEN Byte(d, ToNat(a)) ELSE HostByte(h, U32(ToNat(a) - INTERNAL_SIZE))
\* the value of width bytes at a, zero- or sign-extended to 32 bits
Extended(opcode, d, a, h) ==
    LET v == IF LoadWidth(opcode) = 1 THEN ByteAt(d, a, h)
             ELSE ByteAt(d, a, h) + 256 * ByteAt(d, AddU32(a, One).val, h)
        negative == opcode \in {"LDRSB", "LDRSH"} /\ v >= Pow2(8 * LoadWidth(opcode) - 1)
    IN  IF negative THEN <<W16 - 1, W16 - Pow2(8 * LoadWidth(opcode)) + v>> ELSE <<0, v>>
\* what is sent to the host to read the width bytes at a that are remote
RECURSIVE RemoteReads(_, _, _)
RemoteReads(a, width, h) ==
    IF width = 0 THEN <<>>
    ELSE (IF IsRemote(a)
            THEN send(ReadMemory(U32(ToNat(a) - INTERNAL_SIZE)),
                      HostAnswer(h, U32(ToNat(a) - INTERNAL_SIZE))).tx
          ELSE <<>>) \o RemoteReads(AddU32(a, One).val, width - 1, h)

\* C28: LDRB and LDRSB read the one byte at the address, LDRH and LDRSH the
\* two bytes at the address and the next: the load succeeds when these bytes
\* lie below L, reads no other address, local or remote, and ends with the
\* value zero- or sign-extended in the register.
C28_LoadWidth ==
    [][LET a == regs[1]
           op == call'.fn
       IN  (op \in NarrowLoads /\ call'.host.kind = "byte"
                /\ Lt32(a, U32(size - LoadWidth(op) + 1))) =>
                /\ ret'.kind = "Ok"
                /\ regs'[3] = Extended(op, data, a, call'.host)
                /\ tx' = RemoteReads(a, LoadWidth(op), call'.host)
      ]_vars

\* C28 for a load whose word lies in the memory: it succeeds and ends with
\* the extended value in the register and the address register as it was.
C28_LoadedValue ==
    [][LET a == regs[1]
           op == call'.fn
       IN  (op \in NarrowLoads /\ call'.host.kind = "byte" /\ Lt32(a, U32(size - 3))) =>
                /\ ret'.kind = "Ok"
                /\ regs'[3] = Extended(op, data, a, call'.host)
                /\ regs'[1] = a
      ]_vars

\* LDRB at the last byte of the memory has ended in a bus error
C28_Witness ==
    /\ call.fn = "LDRB"
    /\ regs[1] = U32(size - 1)
    /\ call.host.kind = "byte"
    /\ ret.kind = "BusError"

\* LDRSB at 0x100 after STR of 0xDEADBEEF has loaded 0xFFFFFFEF
C28_SignWitness ==
    /\ call.fn = "LDRSB"
    /\ regs[1] = U32(256)
    /\ Byte(data, 256) = 239
    /\ regs[3] = <<65535, 65519>>
    /\ ret.kind = "Ok"

\* C29: next() at a PC >= L returns ExhaustedInput and leaves the PC as it
\* was; next_n(buf) with PC + len(buf) > L returns ExhaustedInput, having read
\* no byte and left the PC as it was; a next() that succeeds advances the PC
\* by exactly 1; offset() is the PC minus the last mark.
C29_Cursor ==
    [][LET pc == regs[PC_INDEX] IN
       /\ (call'.fn = "next" /\ Ge32(pc, U32(size))) =>
            /\ ret'.kind = "ExhaustedInput"
            /\ regs' = regs
       /\ (call'.fn = "next_n" /\ Ge32(pc, U32(size - call'.len + 1))) =>
            /\ ret'.kind = "ExhaustedInput"
            /\ regs' = regs
            /\ tx' = <<>>
       /\ (call'.fn = "next" /\ ret'.kind = "Ok") =>
            /\ regs'[PC_INDEX] = AddU32(pc, One).val
            /\ Lt32(pc, U32(size))
       /\ call'.fn = "offset" =>
            /\ ret'.kind = "Ok"
            /\ ret'.val = SubU32(pc, fetch_address).val
      ]_vars

\* C29 for a cursor more than len(buf) below 2^32: the same.
C29_CursorBelowWrap ==
    [][LET pc == regs[PC_INDEX] IN
       /\ (call'.fn = "next" /\ Ge32(pc, U32(size))) =>
            /\ ret'.kind = "ExhaustedInput"
            /\ regs' = regs
       /\ (call'.fn = "next_n" /\ Ge32(pc, U32(size - call'.len + 1))
                /\ ~AddU32(pc, U32(call'.len)).ovf) =>
            /\ ret'.kind = "ExhaustedInput"
            /\ regs' = regs
            /\ tx' = <<>>
       /\ (call'.fn = "next" /\ ret'.kind = "Ok") =>
            /\ regs'[PC_INDEX] = AddU32(pc, One).val
            /\ Lt32(pc, U32(size))
       /\ call'.fn = "offset" =>
            /\ ret'.kind = "Ok"
            /\ ret'.val = SubU32(pc, fetch_address).val
      ]_vars

\* next_n of four bytes at 0xFFFFFFFC has aborted
C29_Witness ==
    /\ call.fn = "next_n" /\ call.len = 4
    /\ regs[PC_INDEX] = <<65535, 65532>>
    /\ ret.kind = "Panic"

\* next_n of four bytes at L - 3 has returned ExhaustedInput, and a next() that
\* followed has read the byte at L - 3
C29_EndWitness ==
    /\ call.fn = "next"
    /\ ret.kind = "Ok"
    /\ regs[PC_INDEX] = U32(size - 2)
    /\ fetch_address = U32(size - 3)

\* C30: whatever terminated response frame the host sends to READ_MEMORY, an
\* empty one and one of more than one byte included, a remote read_memory
\* returns Ok(byte) or a VMError and the interpreter goes on; when the frame
\* has a data byte the value is the first data byte, unescaped.
C30_RemoteReadReturns ==
    (call.fn = "read_memory" /\ IsRemote(call.address)) =>
        /\ ret.kind \in {"Ok", "BusError", "Blocked"}
        /\ status # "panicked"
        /\ call.host.kind \in {"byte", "two"} =>
            /\ ret.kind = "Ok"
            /\ ret.val = HostByte(call.host, U32(ToNat(call.address) - INTERNAL_SIZE))

\* C30 for the frames that carry a data byte: the read returns the first one.
C30_FirstDataByte ==
    (call.fn = "read_memory" /\ IsRemote(call.address)
        /\ call.host.kind \in {"byte", "two"}) =>
        /\ ret.kind = "Ok"
        /\ status # "panicked"
        /\ ret.val = HostByte(call.host, U32(ToNat(call.address) - INTERNAL_SIZE))

\* the host has answered a remote read with an empty frame
C30_Witness ==
    /\ call.fn = "read_memory"
    /\ call.address = U32(INTERNAL_SIZE)
    /\ call.host.kind = "empty"
    /\ ret.kind = "Panic"
    /\ status = "panicked"

\* a frame of two data bytes whose first is an escaped 0xFF has been read as 255
C30_EscapedWitness ==
    /\ call.fn = "read_memory"
    /\ call.address = U32(INTERNAL_SIZE + 2)
    /\ call.host = [seed |-> 253, nak |-> 1, kind |-> "two"]
    /\ ret = [val |-> 255, kind |-> "Ok"]

\* C9: a byte access is routed by its address alone. A read below L_local
\* returns the local byte and writes nothing to the link; a read in
\* [L_local, L) writes exactly one READ_MEMORY frame (after the handshake)
\* whose payload is the little-endian offset a - L_local and returns the byte
\* of the response; a read or a write at or above L is a BusError, with no
\* byte on the link and the memory as it was. No read changes the memory.
C9_Routing ==
    [][LET a == call'.address IN
       /\ call'.fn = "read_memory" =>
            /\ data' = data
            /\ IsLocal(a) =>
                    /\ ret' = [val |-> Byte(data, ToNat(a)), kind |-> "Ok"]
                    /\ tx' = <<>>
            /\ IsRemote(a) =>
                    LET k == call'.host.nak + 1
                        r == receive_data(SubSeq(tx', k + 2, Len(tx')))
                    IN  /\ Len(tx') >= k + 2
                        /\ \A i \in 1..k : tx'[i] = 170
                        /\ tx'[k + 1] = 1
                        /\ ~r.blocked /\ r.rx = <<>>
                        /\ r.data = LittleEndian(ToNat(a) - 102400)
                        /\ call'.host.kind = "byte" =>
                                ret' = [val |-> HostByte(call'.host, U32(ToNat(a) - 102400)),
                                        kind |-> "Ok"]
            /\ IsBeyond(a) =>
                    ret'.kind = "BusError" /\ tx' = <<>>
       /\ (call'.fn = "write_memory" /\ IsBeyond(a)) =>
            ret'.kind = "BusError" /\ tx' = <<>> /\ data' = data
      ]_vars

C9_Witness ==
    /\ call.fn = "read_memory"
    /\ call.address = U32(INTERNAL_SIZE + 255)
    /\ call.host.nak = 1
    /\ ret = [val |-> 252, kind |-> "Ok"]
    /\ DOMAIN data # {}

\* C10: within local memory a read returns the byte of the most recent write
\* to that address, or 0 when it was never written, and a write changes the
\* byte at its address only.
C10_LocalRoundTrip ==
    [][LET a == call'.address IN
       /\ (call'.fn = "read_memory" /\ IsLocal(a)) =>
            ret' = [val |-> IF a \in DOMAIN written' THEN written'[a] ELSE 0,
                    kind |-> "Ok"]
       /\ (call'.fn = "write_memory" /\ IsLocal(a)) =>
            /\ ret'.kind = "Ok"
            /\ Byte(data', ToNat(a)) = call'.bit
            /\ \A b \in (DOMAIN data \cup DOMAIN data') \ {ToNat(a)} :
                    Byte(data', b) = Byte(data, b)
      ]_vars

C10_Witness ==
    /\ call.fn = "read_memory"
    /\ call.address = U32(INTERNAL_SIZE - 1)
    /\ ret = [val |-> 255, kind |-> "Ok"]
    /\ Zero \in DOMAIN written /\ written[Zero] = 1

====
